---- MODULE Spec2Model ----
(***************************************************************************)
(* Bundle-suggestion engine of src/src/bundling.py as a state machine, and *)
(* the cache and the bundle and branch routes of the service in src/app.py.*)
(*                                                                         *)
(* Numbers.  The program computes in binary floating point; the model      *)
(* computes in exact rational arithmetic.  A rational is a pair <<n, d>>   *)
(* in lowest terms with d > 0; the pair <<0, 0>> stands for pandas' NA/NaN.*)
(* Identifiers (branch_id, item_id, basket_id) are strings, modelled as    *)
(* sequences of one-character strings and ordered as Python orders str.    *)
(*                                                                         *)
(* Tables.  A DataFrame is a record [none, columns, rows] whose rows are   *)
(* records; a dict is the sequence of its <<key, value>> pairs in          *)
(* insertion order.  item_sales holds one row per branch and item.         *)
(* sort_values on two keys is stable, as pandas' lexsort is.               *)
(***************************************************************************)
EXTENDS Integers, Sequences, FiniteSets, TLC

VARIABLES
    item_sales,     \* argument: the item_sales DataFrame [columns, rows]
    transactions,   \* argument: the transactions DataFrame, or None
    cfg,            \* the keyword arguments of generate_bundle_suggestions
    pc,             \* position in generate_bundle_suggestions; "error" after a
                    \* raise ValueError, "key_error" after the KeyError of a
                    \* column that is not there
    sales,          \* sales = _infer_price_cost(item_sales)
    baskets,        \* baskets = _build_transactions(transactions)
    pair_df,        \* pair_df = _pair_stats(baskets)
    todo,           \* branch groups of sales.groupby("branch_id") still to visit
    low_items,      \* low_items of the branch being visited
    anchors,        \* anchors of the branch being visited (sorted, head(30))
    low_idx,        \* index in low_items of the next low-seller
    out_rows,       \* out_rows: the BundleSuggestion list
    df_out,         \* the returned DataFrame
    trace,          \* per visited low-seller: the loop body's local variables
    disk,           \* src/app.py: what the data files hold when the app is created
    cache,          \* src/app.py: the cache dict of create_app
    response        \* src/app.py: the response to the last request

vars == <<item_sales, transactions, cfg, pc, sales, baskets, pair_df, todo,
          low_items, anchors, low_idx, out_rows, df_out, trace, disk, cache, response>>

-----------------------------------------------------------------------------
(* Bounds of the model.                                                    *)

\* item ids per branch are "1" .. str(MaxItems)
MaxItems == 3
\* rows of the transactions table of the one-branch runs (SpecAssoc)
MaxTxnRows == 3
\* rows of the transactions table of the two-branch runs (SpecBranches)
MaxBranchTxnRows == 3
\* rows of the transactions table handed to the pair miner alone (SpecPairs)
MaxPairRows == 3
\* rows of the transactions table handed to the basket builder (SpecBaskets)
MaxBasketRows == 2

-----------------------------------------------------------------------------
(* Exact rational arithmetic.                                              *)

Abs(n) == IF n < 0 THEN -n ELSE n

RECURSIVE GCD(_, _)
GCD(a, b) == IF b = 0 THEN a ELSE GCD(b, a % b)

Rat(n, d) ==
    IF d = 0 THEN <<0, 0>>
    ELSE LET g == GCD(Abs(n), Abs(d))
             s == IF d < 0 THEN -1 ELSE 1
         IN  <<(s * n) \div g, (s * d) \div g>>

NA == <<0, 0>>
IsNA(r) == r[2] = 0
RInt(n) == <<n, 1>>
RZero == RInt(0)
ROne == RInt(1)

RAdd(a, b) == IF IsNA(a) \/ IsNA(b) THEN NA ELSE Rat(a[1] * b[2] + b[1] * a[2], a[2] * b[2])
RSub(a, b) == IF IsNA(a) \/ IsNA(b) THEN NA ELSE Rat(a[1] * b[2] - b[1] * a[2], a[2] * b[2])
RMul(a, b) == IF IsNA(a) \/ IsNA(b) THEN NA ELSE Rat(a[1] * b[1], a[2] * b[2])
\* a / b of two floats or Series cells; x / NA and x / 0.replace(0, NA) are NA
RDiv(a, b) == IF IsNA(a) \/ IsNA(b) \/ b[1] = 0 THEN NA ELSE Rat(a[1] * b[2], a[2] * b[1])

\* comparisons; a comparison with NaN is False
RLt(a, b) == ~IsNA(a) /\ ~IsNA(b) /\ a[1] * b[2] < b[1] * a[2]
RLe(a, b) == ~IsNA(a) /\ ~IsNA(b) /\ a[1] * b[2] <= b[1] * a[2]
RGt(a, b) == RLt(b, a)
RGe(a, b) == RLe(b, a)
RMin(a, b) == IF RLt(b, a) THEN b ELSE a
RMax(a, b) == IF RGt(b, a) THEN b ELSE a

RECURSIVE Pow10(_)
Pow10(k) == IF k = 0 THEN 1 ELSE 10 * Pow10(k - 1)

\* round(x, k): to k decimals, ties to even
Round(x, k) ==
    LET s == RMul(x, RInt(Pow10(k)))
        q == s[1] \div s[2]
        r == s[1] % s[2]
        m == IF 2 * r < s[2] THEN q
             ELSE IF 2 * r > s[2] THEN q + 1
             ELSE IF q % 2 = 0 THEN q ELSE q + 1
    IN  Rat(m, Pow10(k))

\* the integer square root of a perfect square
ISqrt(n) == CHOOSE k \in 0..n : k * k = n

-----------------------------------------------------------------------------
(* Strings as sequences of characters, ordered by code point.              *)

Digits == <<"0", "1", "2", "3", "4", "5", "6", "7", "8", "9">>

CharCode(c) ==
    IF c = "+" THEN 43
    ELSE IF c = "_" THEN 95
    ELSE 47 + (CHOOSE i \in 1..10 : Digits[i] = c)

\* str(n) for a natural number n
RECURSIVE Str(_)
Str(n) == IF n < 10 THEN <<Digits[n + 1]>> ELSE Str(n \div 10) \o <<Digits[(n % 10) + 1]>>

\* s < t on Python str
RECURSIVE StrLess(_, _)
StrLess(s, t) ==
    IF t = <<>> THEN FALSE
    ELSE IF s = <<>> THEN TRUE
    ELSE IF CharCode(Head(s)) # CharCode(Head(t)) THEN CharCode(Head(s)) < CharCode(Head(t))
    ELSE StrLess(Tail(s), Tail(t))

\* sorted(S) of a set of strings
RECURSIVE SortedStrs(_)
SortedStrs(S) ==
    IF S = {} THEN <<>>
    ELSE LET m == CHOOSE x \in S : \A y \in S \ {x} : StrLess(x, y)
         IN  <<m>> \o SortedStrs(S \ {m})

Range(s) == {s[i] : i \in DOMAIN s}

-----------------------------------------------------------------------------
(* Python dict: insertion-ordered sequence of <<key, value>>.              *)

DictHas(d, k) == \E i \in DOMAIN d : d[i][1] = k
DictGet(d, k, default) ==
    IF DictHas(d, k) THEN d[CHOOSE i \in DOMAIN d : d[i][1] = k][2] ELSE default
DictPut(d, k, v) ==
    IF DictHas(d, k) THEN [i \in DOMAIN d |-> IF d[i][1] = k THEN <<k, v>> ELSE d[i]]
    ELSE Append(d, <<k, v>>)

-----------------------------------------------------------------------------
(* DataFrames: [columns |-> set of column names, rows |-> sequence of      *)
(* records with exactly those fields].  None is the table marked none.     *)

Table(cols, rows) == [none |-> FALSE, columns |-> cols, rows |-> rows]
None == [none |-> TRUE, columns |-> {}, rows |-> <<>>]
\* DataFrame.empty
IsEmpty(df) == df.columns = {} \/ Len(df.rows) = 0
\* pd.DataFrame()
EmptyFrame == Table({}, <<>>)

\* the record r with field name set to v
WithField(r, name, v) == [x \in DOMAIN r \cup {name} |-> IF x = name THEN v ELSE r[x]]
\* the record r without field name
WithoutField(r, name) == [x \in DOMAIN r \ {name} |-> r[x]]

\* df.rename(columns={old: new})
Rename(df, old, new) ==
    [df EXCEPT !.columns = (df.columns \ {old}) \cup {new},
               !.rows = [i \in DOMAIN df.rows |->
                            WithField(WithoutField(df.rows[i], old), new, df.rows[i][old])]]

\* df[name] = series, where series holds one value per row
Assign(df, name, series) ==
    [df EXCEPT !.columns = df.columns \cup {name},
               !.rows = [i \in DOMAIN df.rows |-> WithField(df.rows[i], name, series[i])]]


\* Series.replace(0, pd.NA) of a cell
ZeroToNA(x) == IF ~IsNA(x) /\ x[1] = 0 THEN NA ELSE x

\* the numeric columns a fillna(0) can touch
NumericCols == {"price", "unit_price", "revenue", "cost", "unit_cost", "profit",
                "unit_profit", "unit_margin"}

\* df.fillna(0)
FillNA(df) ==
    [df EXCEPT !.rows = [i \in DOMAIN df.rows |->
        [c \in DOMAIN df.rows[i] |->
            IF c \in NumericCols /\ IsNA(df.rows[i][c]) THEN RZero ELSE df.rows[i][c]]]]

Error(kind) == [none |-> FALSE, columns |-> {}, rows |-> <<>>, error |-> kind]
IsError(df) == "error" \in DOMAIN df

\* _safe_div
SafeDiv(a, b) == IF b[1] # 0 THEN RDiv(a, b) ELSE RZero

\* mutant: out["unit_price"] is not consulted for the price
PricePathWithoutUnitPrice(cols) ==
    "price" \in cols \/ ("revenue" \in cols /\ "units_sold" \in cols)

\* the columns, after the renames, give a price: no raise at line 55
PricePath(cols) ==
    "price" \in cols \/ ("revenue" \in cols /\ "units_sold" \in cols) \/ "unit_price" \in cols

\* the columns give a cost: no raise at line 65
CostPath(cols) ==
    "cost" \in cols \/ ("profit" \in cols /\ "revenue" \in cols) \/ "unit_cost" \in cols

\* _infer_price_cost: units_sold is an integer column, the money columns are
\* rationals
InferPriceCost(df) ==
    LET out1 == IF "product_id" \in df.columns /\ "item_id" \notin df.columns
                THEN Rename(df, "product_id", "item_id") ELSE df
        out2 == IF "units" \in out1.columns /\ "units_sold" \notin out1.columns
                THEN Rename(out1, "units", "units_sold") ELSE out1
        cols == out2.columns
        PriceOf(r) == IF "revenue" \in cols /\ "units_sold" \in cols
                      THEN RDiv(r.revenue, ZeroToNA(RInt(r.units_sold)))
                      ELSE r.unit_price
        out3 == IF "price" \in cols THEN out2 ELSE Assign(out2, "price", [i \in DOMAIN out2.rows |-> PriceOf(out2.rows[i])])
        CostOf(r) == IF "profit" \in cols /\ "revenue" \in cols
                     THEN RSub(r.revenue, r.profit)
                     ELSE r.unit_cost
        out4 == IF "cost" \in cols THEN out3 ELSE Assign(out3, "cost", [i \in DOMAIN out3.rows |-> CostOf(out3.rows[i])])
        UnitCostOf(r) == IF "units_sold" \in cols
                         THEN RDiv(r.cost, ZeroToNA(RInt(r.units_sold)))
                         ELSE r.cost
        out5 == IF "unit_cost" \in cols THEN out4 ELSE Assign(out4, "unit_cost", [i \in DOMAIN out4.rows |-> UnitCostOf(out4.rows[i])])
        UnitProfitOf(r) == RSub(r.price, r.unit_cost)
        out6 == Assign(out5, "unit_profit", [i \in DOMAIN out5.rows |-> UnitProfitOf(out5.rows[i])])
        UnitMarginOf(r) == RDiv(r.unit_profit, ZeroToNA(r.price))
        out7 == Assign(out6, "unit_margin", [i \in DOMAIN out6.rows |-> UnitMarginOf(out6.rows[i])])
    IN  IF ~PricePath(cols) \/ ~CostPath(cols) THEN Error("ValueError") ELSE FillNA(out7)

-----------------------------------------------------------------------------
(* _build_transactions                                                     *)

\* mutant: the date is looked at first, then customer_id and date, then order_id
BasketIdDateFirst(r, cols) ==
    IF "date" \in cols /\ "customer_id" \notin cols THEN r.date
    ELSE IF "customer_id" \in cols /\ "date" \in cols THEN r.customer_id \o <<"_">> \o r.date
    ELSE r.order_id

\* the basket id of a transaction row: order_id, else customer_id_date, else date
BasketId(r, cols) ==
    IF "order_id" \in cols THEN r.order_id
    ELSE IF "customer_id" \in cols /\ "date" \in cols THEN r.customer_id \o <<"_">> \o r.date
    ELSE r.date

\* pairs of strings in groupby order: by the first, then by the second
KeyLess(k, l) == StrLess(k[1], l[1]) \/ (k[1] = l[1] /\ StrLess(k[2], l[2]))

RECURSIVE SortedKeys(_)
SortedKeys(S) ==
    IF S = {} THEN <<>>
    ELSE LET m == CHOOSE x \in S : \A y \in S \ {x} : KeyLess(x, y)
         IN  <<m>> \o SortedKeys(S \ {m})

BuildTransactions(df) ==
    LET x == IF "product_id" \in df.columns /\ "item_id" \notin df.columns
             THEN Rename(df, "product_id", "item_id") ELSE df
        grouping == "order_id" \in x.columns \/ "date" \in x.columns
        keys == {<<x.rows[i].branch_id, BasketId(x.rows[i], x.columns)>> : i \in DOMAIN x.rows}
        sk == SortedKeys(keys)
        ItemsOf(k) == {x.rows[i].item_id : i \in {j \in DOMAIN x.rows :
                          <<x.rows[j].branch_id, BasketId(x.rows[j], x.columns)>> = k}}
    IN  IF ~grouping THEN Error("ValueError")
        ELSE Table({"branch_id", "basket_id", "items"},
                   [n \in DOMAIN sk |->
                       [branch_id |-> sk[n][1], basket_id |-> sk[n][2],
                        items |-> SortedStrs(ItemsOf(sk[n]))]])

-----------------------------------------------------------------------------
(* _pair_stats                                                             *)

\* for it in items: item_count[it] = item_count.get(it, 0) + 1
RECURSIVE CountItems(_, _, _)
CountItems(items, i, item_count) ==
    IF i > Len(items) THEN item_count
    ELSE CountItems(items, i + 1,
                    DictPut(item_count, items[i], DictGet(item_count, items[i], 0) + 1))

\* mutant: key = (a, b)
PairKeyAsGiven(a, b) == <<a, b>>

\* key = (a, b) if a < b else (b, a)
PairKey(a, b) == IF StrLess(a, b) THEN <<a, b>> ELSE <<b, a>>

\* for i in range(n): for j in range(i + 1, n): pair_count[key] += 1
RECURSIVE CountPairs(_, _, _, _)
CountPairs(items, i, j, pair_count) ==
    IF i > Len(items) THEN pair_count
    ELSE IF j > Len(items) THEN CountPairs(items, i + 1, i + 2, pair_count)
    ELSE LET key == PairKey(items[i], items[j])
         IN  CountPairs(items, i, j + 1,
                        DictPut(pair_count, key, DictGet(pair_count, key, 0) + 1))

\* for items in g["items"]: the two dicts after the baskets g[n..]
RECURSIVE CountBaskets(_, _, _)
CountBaskets(g, n, counts) ==
    IF n > Len(g) THEN counts
    ELSE CountBaskets(g, n + 1,
            [item_count |-> CountItems(g[n].items, 1, counts.item_count),
             pair_count |-> CountPairs(g[n].items, 1, 2, counts.pair_count)])

\* mutant: the lift is taken from the counts, not from the supports
BranchPairRowsCountLift(branch_id, g) ==
    LET total == Len(g)
        counts == CountBaskets(g, 1, [item_count |-> <<>>, pair_count |-> <<>>])
        pc_ == counts.pair_count
    IN  [n \in DOMAIN pc_ |->
            LET a == pc_[n][1][1]
                b == pc_[n][1][2]
                c_a == RInt(DictGet(counts.item_count, a, 0))
                c_b == RInt(DictGet(counts.item_count, b, 0))
            IN  [branch_id |-> branch_id, a |-> a, b |-> b,
                 support |-> Rat(pc_[n][2], total),
                 lift |-> SafeDiv(RInt(pc_[n][2]), RMul(c_a, c_b))]]

\* the rows of one branch group g
BranchPairRows(branch_id, g) ==
    LET total == Len(g)
        counts == CountBaskets(g, 1, [item_count |-> <<>>, pair_count |-> <<>>])
        pc_ == counts.pair_count
    IN  [n \in DOMAIN pc_ |->
            LET a == pc_[n][1][1]
                b == pc_[n][1][2]
                sup_ab == Rat(pc_[n][2], total)
                sup_a == Rat(DictGet(counts.item_count, a, 0), total)
                sup_b == Rat(DictGet(counts.item_count, b, 0), total)
            IN  [branch_id |-> branch_id, a |-> a, b |-> b, support |-> sup_ab,
                 lift |-> SafeDiv(sup_ab, RMul(sup_a, sup_b))]]

\* the concatenation of a sequence of sequences
RECURSIVE Flatten(_)
Flatten(ss) == IF ss = <<>> THEN <<>> ELSE Head(ss) \o Flatten(Tail(ss))

PairStats(bk) ==
    LET ids == SortedStrs({bk.rows[i].branch_id : i \in DOMAIN bk.rows})
        Group(b) == SelectSeq(bk.rows, LAMBDA r : r.branch_id = b)
        Rows(b) == BranchPairRows(b, Group(b))
        rows == Flatten([n \in DOMAIN ids |-> Rows(ids[n])])
    IN  IF rows = <<>> THEN EmptyFrame
        ELSE Table({"branch_id", "a", "b", "support", "lift"}, rows)

-----------------------------------------------------------------------------
(* _fallback_time_comovement                                               *)

RECURSIVE SumSeq(_)
SumSeq(s) == IF s = <<>> THEN 0 ELSE Head(s) + SumSeq(Tail(s))

\* the integers of S in ascending order
RECURSIVE SortedInts(_)
SortedInts(S) ==
    IF S = {} THEN <<>>
    ELSE LET m == CHOOSE x \in S : \A y \in S : x <= y
         IN  <<m>> \o SortedInts(S \ {m})

\* Series.corr: Pearson's r of two integer series of equal length, NaN when
\* there are fewer than two points or a series is constant.  r is
\* sign(cov) * sqrt(cov^2 / (vx * vy)); the inputs of the model make the
\* quotient the square of a rational.
Corr(x, y) ==
    LET n == Len(x)
        sx == SumSeq(x)
        sy == SumSeq(y)
        cov == n * SumSeq([i \in DOMAIN x |-> x[i] * y[i]]) - sx * sy
        vx == n * SumSeq([i \in DOMAIN x |-> x[i] * x[i]]) - sx * sx
        vy == n * SumSeq([i \in DOMAIN y |-> y[i] * y[i]]) - sy * sy
        sq == Rat(cov * cov, vx * vy)
        r == Rat(ISqrt(sq[1]), ISqrt(sq[2]))
    IN  IF n < 2 \/ vx = 0 \/ vy = 0 THEN NA
        ELSE IF cov < 0 THEN RSub(RZero, r) ELSE r

FallbackTimeComovement(sl, branch_id, item_a, item_b) ==
    LET sdf == SelectSeq(sl.rows, LAMBDA r : r.branch_id = branch_id)
        time_col == IF "date" \in sl.columns THEN "date"
                    ELSE IF "month" \in sl.columns THEN "month" ELSE "None"
        times == SortedInts({sdf[i][time_col] : i \in DOMAIN sdf})
        Cell(t, item) ==
            SumSeq([i \in DOMAIN sdf |->
                IF sdf[i][time_col] = t /\ sdf[i].item_id = item THEN sdf[i].units_sold ELSE 0])
        Column(item) == [n \in DOMAIN times |-> Cell(times[n], item)]
        items == {sdf[i].item_id : i \in DOMAIN sdf}
        corr == Corr(Column(item_a), Column(item_b))
    IN  IF sdf = <<>> THEN RZero
        ELSE IF time_col = "None" \/ "units_sold" \notin sl.columns THEN RZero
        ELSE IF item_a \notin items \/ item_b \notin items THEN RZero
        ELSE IF IsNA(corr) THEN RZero
        ELSE RMax(RZero, RMin(ROne, RDiv(RAdd(corr, ROne), RInt(2))))

-----------------------------------------------------------------------------
(* generate_bundle_suggestions: candidate selection                        *)

\* anchors kept per branch: .head(30)
TopAnchors == 30

\* the integers of a sequence in ascending order
RECURSIVE SortInts(_)
SortInts(s) ==
    IF s = <<>> THEN <<>>
    ELSE LET m == CHOOSE i \in DOMAIN s : \A j \in DOMAIN s : s[i] <= s[j]
         IN  <<s[m]>> \o SortInts([k \in 1..(Len(s) - 1) |-> IF k < m THEN s[k] ELSE s[k + 1]])

\* Series.quantile(q), linear interpolation, of a non-empty integer series
Quantile(values, q) ==
    LET v == SortInts(values)
        pos == RMul(q, RInt(Len(v) - 1))
        lo == pos[1] \div pos[2]
        frac == RSub(pos, RInt(lo))
    IN  IF frac = RZero THEN RInt(v[lo + 1])
        ELSE RAdd(RInt(v[lo + 1]), RMul(RInt(v[lo + 2] - v[lo + 1]), frac))

\* the rows of sales of one branch, in table order
BranchGroup(sl, b) == SelectSeq(sl.rows, LAMBDA r : r.branch_id = b)

UnitsOf(g) == [i \in DOMAIN g |-> g[i].units_sold]

LowItems(g, c) ==
    LET low_thr == Quantile(UnitsOf(g), c.low_sales_quantile)
    IN  SelectSeq(g, LAMBDA r : RLe(RInt(r.units_sold), low_thr))

QualifyingAnchors(g, c) ==
    LET anchor_thr == Quantile(UnitsOf(g), c.anchor_sales_quantile)
    IN  SelectSeq(g, LAMBDA r : RGe(RInt(r.units_sold), anchor_thr)
                                /\ RGe(r.unit_margin, c.min_unit_margin))

AnchorStrength(r) == RMul(RInt(r.units_sold), r.unit_margin)

\* sort_values("anchor_strength", ascending=False), rows of equal strength
\* kept in table order
RECURSIVE SortByStrength(_)
SortByStrength(s) ==
    IF s = <<>> THEN <<>>
    ELSE LET m == CHOOSE i \in DOMAIN s :
                    /\ \A j \in DOMAIN s : RGe(AnchorStrength(s[i]), AnchorStrength(s[j]))
                    /\ \A j \in 1..(i - 1) : AnchorStrength(s[j]) # AnchorStrength(s[i])
         IN  <<s[m]>> \o SortByStrength([k \in 1..(Len(s) - 1) |-> IF k < m THEN s[k] ELSE s[k + 1]])

Head_(s, k) == IF Len(s) <= k THEN s ELSE SubSeq(s, 1, k)

\* mutant: the sorted anchors are not cut to the first 30
AnchorsUnpruned(g, c) == SortByStrength(QualifyingAnchors(g, c))

\* anchors = anchors.sort_values("anchor_strength", ascending=False).head(30)
Anchors(g, c) == Head_(SortByStrength(QualifyingAnchors(g, c)), TopAnchors)

-----------------------------------------------------------------------------
(* generate_bundle_suggestions: association, scoring, selection            *)

\* which estimator a run uses for support and lift
Estimator(pairs) == IF ~IsEmpty(pairs) THEN "pair_stats" ELSE "fallback"

\* mutant: the pair's row is looked up by its items alone, in any branch
AssociationAnyBranch(pairs, sl, b, low_id, anc_id) ==
    IF Estimator(pairs) = "pair_stats"
    THEN LET k == PairKey(low_id, anc_id)
             row == SelectSeq(pairs.rows, LAMBDA r : r.a = k[1] /\ r.b = k[2])
         IN  IF row # <<>> THEN [support |-> row[1].support, lift |-> row[1].lift]
             ELSE [support |-> RZero, lift |-> ROne]
    ELSE LET support == FallbackTimeComovement(sl, b, low_id, anc_id)
         IN  [support |-> support, lift |-> RAdd(ROne, support)]

\* mutant: a pair without a row gets lift 0
AssociationDefaultZero(pairs, sl, b, low_id, anc_id) ==
    IF Estimator(pairs) = "pair_stats"
    THEN LET k == PairKey(low_id, anc_id)
             row == SelectSeq(pairs.rows,
                        LAMBDA r : r.branch_id = b /\ r.a = k[1] /\ r.b = k[2])
         IN  IF row # <<>> THEN [support |-> row[1].support, lift |-> row[1].lift]
             ELSE [support |-> RZero, lift |-> RZero]
    ELSE LET support == FallbackTimeComovement(sl, b, low_id, anc_id)
         IN  [support |-> support, lift |-> RAdd(ROne, support)]

\* support and lift of (low_id, anc_id) in branch b
Association(pairs, sl, b, low_id, anc_id) ==
    IF Estimator(pairs) = "pair_stats"
    THEN LET k == PairKey(low_id, anc_id)
             row == SelectSeq(pairs.rows,
                        LAMBDA r : r.branch_id = b /\ r.a = k[1] /\ r.b = k[2])
         IN  IF row # <<>> THEN [support |-> row[1].support, lift |-> row[1].lift]
             ELSE [support |-> RZero, lift |-> ROne]
    ELSE LET support == FallbackTimeComovement(sl, b, low_id, anc_id)
         IN  [support |-> support, lift |-> RAdd(ROne, support)]

\* score = anc_units * 0.5 + lift * 10.0 + support * 20.0 - low_units * 0.1
CandidateScore(anc_units, lift, support, low_units) ==
    RSub(RAdd(RAdd(RMul(RInt(anc_units), Rat(1, 2)), RMul(lift, RInt(10))),
              RMul(support, RInt(20))),
         RMul(RInt(low_units), Rat(1, 10)))

\* best_candidates.append((score, anc_id, anc_price, anc_cost, support, lift))
Candidate(low, anc_row, as) ==
    [score |-> CandidateScore(anc_row.units_sold, as.lift, as.support, low.units_sold),
     anc_id |-> anc_row.item_id,
     anc_price |-> anc_row.price,
     anc_cost |-> anc_row.unit_cost,
     support |-> as.support,
     lift |-> as.lift]

\* best_candidates: one tuple per anchor, in anchor order
Candidates(pairs, sl, b, low, anc) ==
    [n \in DOMAIN anc |->
        Candidate(low, anc[n], Association(pairs, sl, b, low.item_id, anc[n].item_id))]

\* x < y on the tuples (score, anc_id, anc_price, anc_cost, support, lift)
TupleLess(x, y) ==
    IF x.score # y.score THEN RLt(x.score, y.score)
    ELSE IF x.anc_id # y.anc_id THEN StrLess(x.anc_id, y.anc_id)
    ELSE IF x.anc_price # y.anc_price THEN RLt(x.anc_price, y.anc_price)
    ELSE IF x.anc_cost # y.anc_cost THEN RLt(x.anc_cost, y.anc_cost)
    ELSE IF x.support # y.support THEN RLt(x.support, y.support)
    ELSE RLt(x.lift, y.lift)

\* mutant: among the candidates of highest score the smallest anc_id wins
BestCandidateSmallestId(cands) ==
    cands[CHOOSE i \in DOMAIN cands :
            \A j \in DOMAIN cands :
                /\ ~RLt(cands[i].score, cands[j].score)
                /\ cands[i].score = cands[j].score => ~TupleLess(cands[j], cands[i])]

\* mutant: best_candidates.sort(); best_candidates[0]
LeastCandidate(cands) ==
    cands[CHOOSE i \in DOMAIN cands : \A j \in DOMAIN cands : ~TupleLess(cands[j], cands[i])]

\* best_candidates.sort(reverse=True); best_candidates[0]
BestCandidate(cands) ==
    cands[CHOOSE i \in DOMAIN cands : \A j \in DOMAIN cands : ~TupleLess(cands[i], cands[j])]

-----------------------------------------------------------------------------
(* generate_bundle_suggestions: bundle economics                           *)

\* mutant: the cap alone decides the discount, the margin is not consulted
DiscountIgnoringMargin(full_price, full_cost, c) ==
    IF RLt(c.max_discount_pct, Rat(1, 100)) THEN RZero ELSE c.max_discount_pct

\* mutant: the margin alone decides the discount, max_discount_pct is not applied
DiscountUncapped(full_price, full_cost, c) ==
    LET denom == RMul(RSub(ROne, c.target_bundle_margin), full_price)
        min_keep == IF RGt(denom, RZero) THEN RDiv(full_cost, denom) ELSE ROne
        discount == RMax(RZero, RSub(ROne, min_keep))
    IN  IF RLt(discount, Rat(1, 100)) THEN RZero ELSE discount

\* mutant: if discount < 0.001: discount = 0.0
DiscountFloorPerMille(full_price, full_cost, c) ==
    LET denom == RMul(RSub(ROne, c.target_bundle_margin), full_price)
        min_keep == IF RGt(denom, RZero) THEN RDiv(full_cost, denom) ELSE ROne
        discount == RMin(c.max_discount_pct, RMax(RZero, RSub(ROne, min_keep)))
    IN  IF RLt(discount, Rat(1, 1000)) THEN RZero ELSE discount

\* mutant: a discount below 0.01 is applied as it is
DiscountNoFloor(full_price, full_cost, c) ==
    LET denom == RMul(RSub(ROne, c.target_bundle_margin), full_price)
        min_keep == IF RGt(denom, RZero) THEN RDiv(full_cost, denom) ELSE ROne
    IN  RMin(c.max_discount_pct, RMax(RZero, RSub(ROne, min_keep)))

Discount(full_price, full_cost, c) ==
    LET denom == RMul(RSub(ROne, c.target_bundle_margin), full_price)
        min_keep == IF RGt(denom, RZero) THEN RDiv(full_cost, denom) ELSE ROne
        max_discount_allowed_by_margin == RMax(RZero, RSub(ROne, min_keep))
        discount == RMin(c.max_discount_pct, max_discount_allowed_by_margin)
    IN  IF RLt(discount, Rat(1, 100)) THEN RZero ELSE discount

\* mutant: if expected_profit < 0: continue
RejectedBelowZero(expected_profit) == RLt(expected_profit, RZero)

\* if expected_profit <= 0: continue
Rejected(expected_profit) == RLe(expected_profit, RZero)

\* the bundle economics of the selected candidate best
Economics(b, low, anc, est, cands, best, c) ==
    LET full_price == RAdd(best.anc_price, low.price)
        full_cost == RAdd(best.anc_cost, low.unit_cost)
        discount == Discount(full_price, full_cost, c)
        bundle_price == RMul(full_price, RSub(ROne, discount))
        expected_profit == RSub(bundle_price, full_cost)
    IN  [branch_id |-> b, low |-> low, anchors |-> anc, estimator |-> est,
         candidates |-> cands, best |-> best,
         full_price |-> full_price, full_cost |-> full_cost,
         discount |-> discount, bundle_price |-> bundle_price,
         expected_profit |-> expected_profit,
         emitted |-> ~Rejected(expected_profit)]

\* mutant: candidates whose bundle makes no profit are dropped before the
\* best one is taken
SelectedAmongProfitable(b, low, anc, est, cands, c) ==
    LET Profitable(k) ==
            Economics(b, low, anc, est, cands, k, c).emitted
        kept == SelectSeq(cands, Profitable)
    IN  Economics(b, low, anc, est, cands,
                  BestCandidate(IF kept = <<>> THEN cands ELSE kept), c)

\* score, anc_id, ... = best_candidates[0]
Selected(b, low, anc, est, cands, c) ==
    Economics(b, low, anc, est, cands, BestCandidate(cands), c)

\* the local variables of the loop body for one low-seller
Bundle(pairs, sl, b, low, anc, c) ==
    Selected(b, low, anc, Estimator(pairs), Candidates(pairs, sl, b, low, anc), c)

Reason(low) ==
    IF RLt(low.unit_margin, RZero) THEN "Loss-making item covered by bundle"
    ELSE "Boost low-seller using strong anchor"

\* BundleSuggestion(...)
Suggestion(t) ==
    [branch_id |-> t.branch_id,
     bundle_items |-> <<t.best.anc_id, t.low.item_id>>,
     discount_pct |-> Round(RMul(t.discount, RInt(100)), 1),
     bundle_price |-> Round(t.bundle_price, 2),
     expected_profit |-> Round(t.expected_profit, 2),
     support |-> Round(t.best.support, 4),
     lift |-> Round(t.best.lift, 3),
     reason |-> Reason(t.low)]

\* mutant: one suggestion for every scored anchor of the low-seller
AppendedPerCandidate(t) ==
    IF t.emitted THEN [k \in DOMAIN t.candidates |-> Suggestion([t EXCEPT !.best = t.candidates[k]])]
    ELSE <<>>

\* what one pass of the low-seller loop appends to out_rows: nothing after
\* `continue`, else the one BundleSuggestion of the selected anchor
Appended(t) == IF t.emitted THEN <<Suggestion(t)>> ELSE <<>>

-----------------------------------------------------------------------------
(* generate_bundle_suggestions: ranking                                    *)

\* "+".join(bundle_items)
Join(items) == items[1] \o <<"+">> \o items[2]

RankingScore(r) ==
    RAdd(RAdd(r.expected_profit, RMul(r.lift, RInt(2))), RMul(r.support, RInt(50)))

\* mutant: sort_values(["branch_id", "score"]), both ascending
RankBeforeAscending(x, y) ==
    StrLess(x.branch_id, y.branch_id)
    \/ (x.branch_id = y.branch_id /\ RLt(RankingScore(x), RankingScore(y)))

\* sort_values(["branch_id", "score"], ascending=[True, False]): row x sorts
\* before row y
RankBefore(x, y) ==
    StrLess(x.branch_id, y.branch_id)
    \/ (x.branch_id = y.branch_id /\ RGt(RankingScore(x), RankingScore(y)))

\* mutant: rows that compare equal come out in reverse order
RECURSIVE SortRankedTiesReversed(_)
SortRankedTiesReversed(s) ==
    IF s = <<>> THEN <<>>
    ELSE LET m == CHOOSE i \in DOMAIN s :
                    /\ \A j \in DOMAIN s : ~RankBefore(s[j], s[i])
                    /\ \A j \in (i + 1)..Len(s) : RankBefore(s[i], s[j])
         IN  <<s[m]>> \o SortRankedTiesReversed(
                            [k \in 1..(Len(s) - 1) |-> IF k < m THEN s[k] ELSE s[k + 1]])

\* the sort is stable: rows that compare equal keep their order
RECURSIVE SortRanked(_)
SortRanked(s) ==
    IF s = <<>> THEN <<>>
    ELSE LET m == CHOOSE i \in DOMAIN s :
                    /\ \A j \in DOMAIN s : ~RankBefore(s[j], s[i])
                    /\ \A j \in 1..(i - 1) : RankBefore(s[i], s[j])
         IN  <<s[m]>> \o SortRanked([k \in 1..(Len(s) - 1) |-> IF k < m THEN s[k] ELSE s[k + 1]])

\* mutant: one row more than k of every branch
GroupHeadOneMore(s, k) ==
    LET idx == {i \in DOMAIN s :
                   Cardinality({j \in 1..(i - 1) : s[j].branch_id = s[i].branch_id}) <= k}
        keep == SortedInts(idx)
    IN  [n \in DOMAIN keep |-> s[keep[n]]]

\* groupby("branch_id").head(k): the first k rows of every branch
GroupHead(s, k) ==
    LET idx == {i \in DOMAIN s :
                   Cardinality({j \in 1..(i - 1) : s[j].branch_id = s[i].branch_id}) < k}
        keep == SortedInts(idx)
    IN  [n \in DOMAIN keep |-> s[keep[n]]]

Finalize(rows, c) ==
    LET df == [i \in DOMAIN rows |-> [rows[i] EXCEPT !.bundle_items = Join(rows[i].bundle_items)]]
    IN  IF df = <<>> THEN EmptyFrame
        ELSE Table({"branch_id", "bundle_items", "discount_pct", "bundle_price",
                    "expected_profit", "support", "lift", "reason"},
                   GroupHead(SortRanked(df), c.top_k_per_branch))

-----------------------------------------------------------------------------
(* generate_bundle_suggestions as a function of its arguments: what a run  *)
(* on other arguments returns.                                             *)

BranchIdsOf(sl) == SortedStrs({sl.rows[i].branch_id : i \in DOMAIN sl.rows})

HasTransactions(tr) == ~tr.none /\ ~IsEmpty(tr)

PairFrame(tr) == IF HasTransactions(tr) THEN PairStats(BuildTransactions(tr)) ELSE EmptyFrame

BranchRows(pairs, sl, b, c) ==
    LET g == BranchGroup(sl, b)
        lows == LowItems(g, c)
        anc == Anchors(g, c)
        ts == [n \in DOMAIN lows |-> Bundle(pairs, sl, b, lows[n], anc, c)]
        kept == SelectSeq(ts, LAMBDA t : t.emitted)
    IN  IF lows = <<>> \/ anc = <<>> THEN <<>>
        ELSE [n \in DOMAIN kept |-> Suggestion(kept[n])]

GenerateBundleSuggestions(is, tr, c) ==
    LET sl == InferPriceCost(is)
        pairs == PairFrame(tr)
        ids == BranchIdsOf(sl)
    IN  Finalize(Flatten([n \in DOMAIN ids |-> BranchRows(pairs, sl, ids[n], c)]), c)

-----------------------------------------------------------------------------
(* The arguments the model draws.                                          *)

BranchOne == <<"1">>
BranchTwo == <<"2">>
OrderIds == <<Str(1), Str(2)>>

\* the defaults of the keyword arguments
DefaultCfg ==
    [low_sales_quantile |-> Rat(30, 100), anchor_sales_quantile |-> Rat(70, 100),
     min_unit_margin |-> Rat(10, 100), target_bundle_margin |-> Rat(15, 100),
     max_discount_pct |-> Rat(25, 100), top_k_per_branch |-> 10]

\* item economics: low-sellers sold above cost, at cost and below cost;
\* anchors with unit margin 10% (the default minimum), 50% and 80%; an anchor
\* of lower volume
Slow == [units_sold |-> 1, price |-> 3, unit_cost |-> 2]
SlowFlat == [units_sold |-> 1, price |-> 3, unit_cost |-> 3]
SlowLoss == [units_sold |-> 1, price |-> 3, unit_cost |-> 4]
Thin == [units_sold |-> 10, price |-> 10, unit_cost |-> 9]
Strong == [units_sold |-> 10, price |-> 10, unit_cost |-> 5]
Rich == [units_sold |-> 10, price |-> 10, unit_cost |-> 2]
Steady == [units_sold |-> 9, price |-> 10, unit_cost |-> 5]

EconProfiles == {Slow, SlowFlat, SlowLoss, Thin, Strong, Rich}

SalesCols == {"branch_id", "item_id", "units_sold", "price", "unit_cost"}

SalesRow(b, i, prof) ==
    [branch_id |-> b, item_id |-> Str(i), units_sold |-> prof.units_sold,
     price |-> RInt(prof.price), unit_cost |-> RInt(prof.unit_cost)]

\* one row per item 1..MaxItems of branch b, item i with profile profs[i]
BranchSales(b, profs) == [i \in DOMAIN profs |-> SalesRow(b, i, profs[i])]

\* the same with a month column: item i sold in month months[i]
MonthlySales(b, profs, months) ==
    [i \in DOMAIN profs |-> WithField(SalesRow(b, i, profs[i]), "month", months[i])]

TxnCols == {"branch_id", "item_id", "order_id"}

\* the transaction rows over the branches bs and the order ids os (sequences)
\* and the items 1..k, numbered 1..TxnRowCount(bs, os, k)
TxnRowCount(bs, os, k) == Len(bs) * Len(os) * k
TxnRow(bs, os, k, n) ==
    [branch_id |-> bs[((n - 1) \div (Len(os) * k)) + 1],
     order_id |-> os[(((n - 1) \div k) % Len(os)) + 1],
     item_id |-> Str(((n - 1) % k) + 1)]

\* every table of at most len rows, in every row order
TxnTables(bs, os, k, len) ==
    {Table(TxnCols, [i \in DOMAIN s |-> TxnRow(bs, os, k, s[i])]) :
        s \in UNION {[1..l -> 1..TxnRowCount(bs, os, k)] : l \in 0..len}}

\* every table of at most len rows, one row order per multiset of rows
TxnBags(bs, os, k, len) ==
    {Table(TxnCols, [i \in DOMAIN s |-> TxnRow(bs, os, k, s[i])]) :
        s \in {t \in UNION {[1..l -> 1..TxnRowCount(bs, os, k)] : l \in 0..len} :
                  \A i \in DOMAIN t : \A j \in DOMAIN t : i < j => t[i] <= t[j]}}

-----------------------------------------------------------------------------
(* src/app.py: the cache of create_app and its routes.  A list and a dict  *)
(* are sequences; a text is [none |-> FALSE, text |-> ...], so that a       *)
(* field can hold None or a text.                                          *)

Text(s) == [none |-> FALSE, text |-> s]

\* a cell of a column read by read_csv: an integer or a str
IntCell(n) == [int |-> n]
StrCell(s) == [str |-> s]

\* Series.astype(str) of a cell, str(x) of a value
AsStr(x) == IF "int" \in DOMAIN x THEN Str(x.int) ELSE x.str

\* row.get(name, default)
Get(r, name, default) == IF name \in DOMAIN r THEN r[name] ELSE default

\* cache: Dict[str, object] = {...}
InitialCache ==
    [branches_df |-> EmptyFrame, cluster_summary |-> <<>>, monthly_by_branch |-> <<>>,
     top_products_by_branch |-> <<>>, bundles_df |-> EmptyFrame, load_error |-> None]

\* what the try block computes from the data files of data set d: scored_df,
\* cluster_summary, monthly_by_branch, top_products_by_branch
ScoredFrame(d) ==
    Table({"branch", "branch_key", "cluster", "health_score", "gap_profit", "overall_margin"},
          [i \in 1..d |->
              [branch |-> Str(i), branch_key |-> Str(i), cluster |-> i % 2,
               health_score |-> Rat(1000 * i + 5 * d, 1000), gap_profit |-> Rat(-(i + d), 8),
               overall_margin |-> Rat(d, 3)]])

Loaded(d) ==
    [scored_df |-> ScoredFrame(d),
     cluster_summary |-> [i \in 1..d |-> [cluster |-> i % 2, count |-> d]],
     monthly_by_branch |-> [i \in 1..d |-> <<Str(i), <<[month |-> 1, revenue |-> RInt(d)]>>>>],
     top_products_by_branch |-> [i \in 1..d |-> <<Str(i), <<Str(d)>>>>]]

\* the try block of _reload_cache on the files dk, up to its end or to the
\* statement that raises: the cache then, and the exception or None
TryReload(c, dk) ==
    IF dk.fails # "none" THEN [cache |-> c, exc |-> Text(dk.fails)]
    ELSE LET l == Loaded(dk.data)
             c1 == [c EXCEPT !.branches_df = l.scored_df,
                             !.cluster_summary = l.cluster_summary,
                             !.monthly_by_branch = l.monthly_by_branch,
                             !.top_products_by_branch = l.top_products_by_branch,
                             !.load_error = None]
         IN  IF ~dk.bundles.exists
             THEN [cache |-> [c1 EXCEPT !.bundles_df = EmptyFrame], exc |-> None]
             ELSE IF ~dk.bundles.readable
             THEN [cache |-> c1, exc |-> Text("read_csv")]
             ELSE [cache |-> [c1 EXCEPT !.bundles_df = dk.bundles.table], exc |-> None]

\* mutant: the handler records the error and leaves the data fields alone
FailedKeepData(c, exc) == [c EXCEPT !.load_error = exc]

\* except Exception as exc: load_error = str(exc), every data field emptied
Failed(c, exc) ==
    [c EXCEPT !.load_error = exc, !.branches_df = EmptyFrame, !.cluster_summary = <<>>,
              !.monthly_by_branch = <<>>, !.top_products_by_branch = <<>>,
              !.bundles_df = EmptyFrame]

\* _reload_cache
ReloadCache(c, dk) ==
    LET t == TryReload(c, dk)
    IN  IF t.exc.none THEN t.cache ELSE Failed(t.cache, t.exc)

\* if cache["load_error"]
Truthy(x) == ~x.none /\ x.text # ""

\* a response: the request, the status and the JSON body
Response(route, arg, status, body) ==
    [route |-> route, arg |-> arg, status |-> status, body |-> body]

\* _branch_payload
BranchPayload(df) ==
    IF IsEmpty(df) THEN <<>>
    ELSE [i \in DOMAIN df.rows |->
             LET r == df.rows[i]
             IN  [branch |-> r.branch,
                  cluster |-> r.cluster,
                  health_score |-> Round(r.health_score, 2),
                  gap_profit |-> Round(r.gap_profit, 2),
                  avg_revenue |-> Round(Get(r, "avg_monthly_revenue", RZero), 2),
                  margin |-> Round(Get(r, "overall_margin", RZero), 4),
                  growth |-> Round(Get(r, "growth_rate", RZero), 4),
                  volatility |-> Round(Get(r, "volatility", RZero), 4),
                  bev_share |-> Round(Get(r, "beverage_share", RZero), 4),
                  food_share |-> Round(Get(r, "food_share", RZero), 4),
                  top5_profit_share |-> Round(Get(r, "top5_profit_share", RZero), 4),
                  sku_count |-> Get(r, "sku_count", 0),
                  may_june_drop |-> Round(Get(r, "may_june_drop", RZero), 4),
                  pca_1 |-> Round(Get(r, "pca_1", RZero), 4),
                  pca_2 |-> Round(Get(r, "pca_2", RZero), 4)]]

\* api_branches
ApiBranches(c) ==
    IF Truthy(c.load_error) THEN Response("branches", <<>>, 500, [error |-> c.load_error.text])
    ELSE Response("branches", <<>>, 200, BranchPayload(c.branches_df))

\* api_cluster_summary
ApiClusterSummary(c) ==
    IF Truthy(c.load_error)
    THEN Response("cluster-summary", <<>>, 500, [error |-> c.load_error.text])
    ELSE Response("cluster-summary", <<>>, 200, c.cluster_summary)

\* the dict api_bundles makes of a row
BundlePayload(row) ==
    [branch_id |-> AsStr(row.branch_id),
     bundle_items |-> Get(row, "bundle_items", <<>>),
     discount_pct |-> Round(Get(row, "discount_pct", RZero), 4),
     bundle_price |-> Round(Get(row, "bundle_price", RZero), 2),
     expected_profit |-> Round(Get(row, "expected_profit", RZero), 2),
     reason |-> Get(row, "reason", ""),
     lift |-> Round(Get(row, "lift", RZero), 4),
     support |-> Round(Get(row, "support", RZero), 4)]

\* mutant: a branch without a row is answered as api_branch_detail answers
\* a branch it does not find
ApiBundlesNotFound(c, branch_id) ==
    LET bundles_df == c.bundles_df
        filtered == SelectSeq(bundles_df.rows, LAMBDA r : AsStr(r.branch_id) = branch_id)
    IN  IF IsEmpty(bundles_df) THEN Response("bundles", branch_id, 404, [error |-> "Branch not found"])
        ELSE IF "branch_id" \notin bundles_df.columns
        THEN Response("bundles", branch_id, 500, <<>>)
        ELSE IF filtered = <<>>
        THEN Response("bundles", branch_id, 404, [error |-> "Branch not found"])
        ELSE Response("bundles", branch_id, 200,
                      [i \in DOMAIN filtered |-> BundlePayload(filtered[i])])

\* api_bundles; bundles_df["branch_id"] of a table without that column is a
\* KeyError, answered with status 500
ApiBundles(c, branch_id) ==
    LET bundles_df == c.bundles_df
        filtered == SelectSeq(bundles_df.rows, LAMBDA r : AsStr(r.branch_id) = branch_id)
    IN  IF IsEmpty(bundles_df) THEN Response("bundles", branch_id, 200, <<>>)
        ELSE IF "branch_id" \notin bundles_df.columns
        THEN Response("bundles", branch_id, 500, <<>>)
        ELSE IF filtered = <<>> THEN Response("bundles", branch_id, 200, <<>>)
        ELSE Response("bundles", branch_id, 200,
                      [i \in DOMAIN filtered |-> BundlePayload(filtered[i])])

\* no data files, no request yet
NoDisk == [fails |-> "none", data |-> 0, bundles |-> [exists |-> FALSE]]
NoResponse == Response("", <<>>, 0, <<>>)

-----------------------------------------------------------------------------
(* The run of generate_bundle_suggestions.                                 *)

\* the state on entry at position p with the arguments is, tr, c
Entry(is, tr, c, p) ==
    /\ item_sales = is
    /\ transactions = tr
    /\ cfg = c
    /\ pc = p
    /\ sales = EmptyFrame
    /\ baskets = None
    /\ pair_df = EmptyFrame
    /\ todo = <<>>
    /\ low_items = <<>>
    /\ anchors = <<>>
    /\ low_idx = 1
    /\ out_rows = <<>>
    /\ df_out = None
    /\ trace = <<>>
    /\ disk = NoDisk
    /\ cache = InitialCache
    /\ response = NoResponse

Start(is, tr, c) == Entry(is, tr, c, "start")

\* sales = _infer_price_cost(item_sales)
Normalize ==
    /\ pc = "start"
    /\ sales' = InferPriceCost(item_sales)
    /\ pc' = IF IsError(sales') THEN "error" ELSE "pairs"
    /\ UNCHANGED <<disk, cache, response,
                   item_sales, transactions, cfg, baskets, pair_df, todo, low_items,
                   anchors, low_idx, out_rows, df_out, trace>>

\* if transactions is not None and not transactions.empty: baskets, pair_df;
\* then sales.groupby("branch_id"), a KeyError without that column
BuildPairs ==
    /\ pc = "pairs"
    /\ baskets' = IF HasTransactions(transactions) THEN BuildTransactions(transactions)
                  ELSE baskets
    /\ pair_df' = IF HasTransactions(transactions) /\ ~IsError(baskets') THEN PairStats(baskets')
                  ELSE pair_df
    /\ pc' = IF IsError(baskets') THEN "error"
             ELSE IF "branch_id" \notin sales.columns THEN "key_error"
             ELSE "branch"
    /\ todo' = IF "branch_id" \in sales.columns THEN BranchIdsOf(sales) ELSE <<>>
    /\ UNCHANGED <<disk, cache, response,
                   item_sales, transactions, cfg, sales, low_items, anchors, low_idx,
                   out_rows, df_out, trace>>

\* mutant: break, the branches after a skipped one are not visited
Break(groups) == <<>>

\* if low_items.empty or anchors.empty: continue, the loop goes on with the
\* branch groups after the skipped one
Continue(groups) == Tail(groups)

\* the head of the branch loop: thresholds, low_items, anchors;
\* g["units_sold"] is a KeyError without that column
SelectCandidates ==
    /\ pc = "branch"
    /\ todo # <<>>
    /\ IF "units_sold" \notin sales.columns
       THEN /\ pc' = "key_error"
            /\ UNCHANGED <<low_items, anchors, todo>>
       ELSE LET g == BranchGroup(sales, Head(todo))
                lows == LowItems(g, cfg)
                anc == Anchors(g, cfg)
                skip == lows = <<>> \/ anc = <<>>
            IN  /\ low_items' = IF skip THEN <<>> ELSE lows
                /\ anchors' = IF skip THEN <<>> ELSE anc
                /\ todo' = IF skip THEN Continue(todo) ELSE todo
                /\ pc' = IF skip THEN "branch" ELSE "low"
    /\ low_idx' = 1
    /\ UNCHANGED <<disk, cache, response,
                   item_sales, transactions, cfg, sales, baskets, pair_df, out_rows,
                   df_out, trace>>

\* the body of the low-seller loop: score the anchors, take the best, price
\* the bundle, emit it or drop it; low["item_id"] is a KeyError without that
\* column
ProposeBundle ==
    /\ pc = "low"
    /\ IF "item_id" \notin sales.columns
       THEN /\ pc' = "key_error"
            /\ UNCHANGED <<trace, out_rows, todo, low_idx>>
       ELSE /\ LET t == Bundle(pair_df, sales, Head(todo), low_items[low_idx], anchors, cfg)
               IN  /\ trace' = Append(trace, t)
                   /\ out_rows' = out_rows \o Appended(t)
            /\ IF low_idx = Len(low_items)
               THEN /\ pc' = "branch"
                    /\ todo' = Tail(todo)
                    /\ low_idx' = 1
               ELSE /\ pc' = "low"
                    /\ todo' = todo
                    /\ low_idx' = low_idx + 1
    /\ UNCHANGED <<disk, cache, response,
                   item_sales, transactions, cfg, sales, baskets, pair_df, low_items,
                   anchors, df_out>>

\* finalize dataframe, rank bundles per branch, top k per branch
Return ==
    /\ pc = "branch"
    /\ todo = <<>>
    /\ df_out' = Finalize(out_rows, cfg)
    /\ pc' = "done"
    /\ UNCHANGED <<disk, cache, response,
                   item_sales, transactions, cfg, sales, baskets, pair_df, todo,
                   low_items, anchors, low_idx, out_rows, trace>>

Next == Normalize \/ BuildPairs \/ SelectCandidates \/ ProposeBundle \/ Return

\* one branch, every mix of item economics, several margins and discount caps
PricingCfgs ==
    {[DefaultCfg EXCEPT !.target_bundle_margin = t, !.max_discount_pct = m] :
        t \in {RZero, Rat(15, 100), ROne}, m \in {RZero, Rat(25, 100), Rat(2, 3)}}

Init ==
    \E profs \in [1..MaxItems -> EconProfiles], c \in PricingCfgs :
        Start(Table(SalesCols, BranchSales(BranchOne, profs)), None, c)

Spec == Init /\ [][Next]_vars

\* one branch, transactions of up to MaxTxnRows rows in two orders, anchors of
\* different volume, the default anchor quantile and the median
AssocCfgs == {DefaultCfg, [DefaultCfg EXCEPT !.anchor_sales_quantile = Rat(1, 2)]}

InitAssoc ==
    \E profs \in [1..MaxItems -> {Slow, Steady, Strong}],
       tr \in {None} \cup TxnBags(<<BranchOne>>, OrderIds, MaxItems, MaxTxnRows),
       c \in AssocCfgs :
        Start(Table(SalesCols, BranchSales(BranchOne, profs)), tr, c)

SpecAssoc == InitAssoc /\ [][Next]_vars

\* two branches: branch "1" with MaxItems items, with or without a month
\* column, branch "2" with a low-seller and an anchor; transactions of up to
\* MaxBranchTxnRows rows over items "1", "2" of both branches
MonthChoices == {m \in [1..MaxItems -> {1, 2}] : m[1] = 1}

BranchesSales ==
    {Table(SalesCols, BranchSales(BranchOne, profs) \o BranchSales(BranchTwo, <<Slow, Strong>>)) :
        profs \in [1..MaxItems -> {Slow, Strong}]}
    \cup
    {Table(SalesCols \cup {"month"},
           MonthlySales(BranchOne, profs, months)
           \o MonthlySales(BranchTwo, <<Slow, Strong>>, <<1, 1>>)) :
        profs \in [1..MaxItems -> {Slow, Strong}], months \in MonthChoices}

InitBranches ==
    \E is \in BranchesSales,
       tr \in {None} \cup TxnBags(<<BranchOne, BranchTwo>>, <<Str(1)>>, 2, MaxBranchTxnRows) :
        Start(is, tr, DefaultCfg)

SpecBranches == InitBranches /\ [][Next]_vars

-----------------------------------------------------------------------------
(* The pair miner alone: _build_transactions, then _pair_stats.            *)

CallBuildTransactions ==
    /\ pc = "transactions"
    /\ baskets' = BuildTransactions(transactions)
    /\ pc' = IF IsError(baskets') THEN "error" ELSE "baskets"
    /\ UNCHANGED <<disk, cache, response,
                   item_sales, transactions, cfg, sales, pair_df, todo, low_items,
                   anchors, low_idx, out_rows, df_out, trace>>

CallPairStats ==
    /\ pc = "baskets"
    /\ pair_df' = PairStats(baskets)
    /\ pc' = "mined"
    /\ UNCHANGED <<disk, cache, response,
                   item_sales, transactions, cfg, sales, baskets, todo, low_items,
                   anchors, low_idx, out_rows, df_out, trace>>

NextPairs == CallBuildTransactions \/ CallPairStats

InitPairs ==
    \E tr \in TxnTables(<<BranchOne, BranchTwo>>, OrderIds, MaxItems, MaxPairRows) :
        Entry(EmptyFrame, tr, DefaultCfg, "transactions")

SpecPairs == InitPairs /\ [][NextPairs]_vars

-----------------------------------------------------------------------------
(* Properties.  They read the arguments, sales and the returned rows, and  *)
(* recompute what they state from those.                                   *)

\* the visited low-sellers whose bundle was emitted, in emission order
EmittedTrace == SelectSeq(trace, LAMBDA t : t.emitted)

\* the row of sales of item id in branch b
SalesRowOf(b, id) == CHOOSE r \in Range(sales.rows) : r.branch_id = b /\ r.item_id = id

\* full_price and full_cost of the pair (anchor id, low-seller row)
PairPrice(b, anc_id, low) == RAdd(SalesRowOf(b, anc_id).price, low.price)
PairCost(b, anc_id, low) == RAdd(SalesRowOf(b, anc_id).unit_cost, low.unit_cost)

\* full_price * (1 - d) - full_cost
ProfitAt(b, anc_id, low, d) ==
    RSub(RMul(PairPrice(b, anc_id, low), RSub(ROne, d)), PairCost(b, anc_id, low))

\* out_rows holds exactly the emitted bundles, in order
RowsMatchTrace ==
    /\ Len(out_rows) = Len(EmittedTrace)
    /\ \A n \in DOMAIN out_rows :
          /\ out_rows[n].branch_id = EmittedTrace[n].branch_id
          /\ out_rows[n].bundle_items = <<EmittedTrace[n].best.anc_id, EmittedTrace[n].low.item_id>>

\* C1: every emitted suggestion has bundle_price > full_cost, that is
\* full_price * (1 - discount) - (anchor.unit_cost + low.unit_cost) > 0 before
\* rounding, and a selected pair whose expected profit is <= 0 is not emitted.
C1_EmittedIffProfitable ==
    /\ RowsMatchTrace
    /\ \A i \in DOMAIN trace :
          trace[i].emitted <=>
              RGt(ProfitAt(trace[i].branch_id, trace[i].best.anc_id, trace[i].low,
                           trace[i].discount), RZero)

\* C1 witness: a run that emitted one bundle and dropped a selected pair with
\* no profit
C1_Witness ==
    /\ \E i \in DOMAIN trace : trace[i].emitted
    /\ \E i \in DOMAIN trace :
          /\ ~trace[i].emitted
          /\ RLe(ProfitAt(trace[i].branch_id, trace[i].best.anc_id, trace[i].low,
                          trace[i].discount), RZero)
    /\ Len(out_rows) > 0

\* bundle_price - full_cost >= target_bundle_margin * bundle_price
MeetsTarget(t) ==
    LET bundle_price == RMul(PairPrice(t.branch_id, t.best.anc_id, t.low), RSub(ROne, t.discount))
    IN  RGe(RSub(bundle_price, PairCost(t.branch_id, t.best.anc_id, t.low)),
            RMul(cfg.target_bundle_margin, bundle_price))

\* C2 as stated: the bundle margin of every emitted suggestion is at least
\* target_bundle_margin.
C2_MarginAtLeastTarget ==
    \A i \in DOMAIN trace : trace[i].emitted => MeetsTarget(trace[i])

\* C2 amended: the bundle margin of every emitted suggestion with a non-zero
\* discount is at least target_bundle_margin.
C2_MarginWhenDiscounted ==
    \A i \in DOMAIN trace :
        (trace[i].emitted /\ trace[i].discount # RZero) => MeetsTarget(trace[i])

\* C2 witness: an emitted bundle with a discount
C2_Witness ==
    \E i \in DOMAIN trace :
        trace[i].emitted /\ RGt(trace[i].discount, RZero) /\ MeetsTarget(trace[i])

\* C3 as stated: the applied discount lies in [0, max_discount_pct] and the
\* emitted discount_pct in [0, 100 * max_discount_pct].
C3_DiscountWithinCap ==
    /\ RowsMatchTrace
    /\ \A n \in DOMAIN out_rows :
          /\ RLe(RZero, EmittedTrace[n].discount)
          /\ RLe(EmittedTrace[n].discount, cfg.max_discount_pct)
          /\ RLe(RZero, out_rows[n].discount_pct)
          /\ RLe(out_rows[n].discount_pct, RMul(RInt(100), cfg.max_discount_pct))

\* C3 amended: the applied discount lies in [0, max_discount_pct] and the
\* emitted discount_pct in [0, round(100 * max_discount_pct, 1)].
C3_DiscountWithinRoundedCap ==
    /\ RowsMatchTrace
    /\ \A n \in DOMAIN out_rows :
          /\ RLe(RZero, EmittedTrace[n].discount)
          /\ RLe(EmittedTrace[n].discount, cfg.max_discount_pct)
          /\ RLe(RZero, out_rows[n].discount_pct)
          /\ RLe(out_rows[n].discount_pct, Round(RMul(RInt(100), cfg.max_discount_pct), 1))

\* C3 witness: an emitted bundle discounted at the cap
C3_Witness ==
    \E n \in DOMAIN out_rows :
        /\ Len(out_rows) = Len(EmittedTrace)
        /\ RGt(cfg.max_discount_pct, RZero)
        /\ EmittedTrace[n].discount = cfg.max_discount_pct

\* the discount of a pair of this full price and cost under the run's cfg:
\* min(max_discount_pct, max(0, 1 - full_cost / ((1 - target) * full_price))),
\* taken as 0 below one percent
PricerDiscount(full_price, full_cost) ==
    LET denom == RMul(RSub(ROne, cfg.target_bundle_margin), full_price)
        min_keep == IF RLe(denom, RZero) THEN ROne ELSE RDiv(full_cost, denom)
        d == RMin(cfg.max_discount_pct, RMax(RZero, RSub(ROne, min_keep)))
    IN  IF RLt(d, Rat(1, 100)) THEN RZero ELSE d

\* the bundle of anchor anc_id and the low-seller is profitable
ProfitablePair(b, anc_id, low) ==
    RGt(ProfitAt(b, anc_id, low,
                 PricerDiscount(PairPrice(b, anc_id, low), PairCost(b, anc_id, low))),
        RZero)

\* the retained anchor of the candidate list with the highest (score, anc_id)
TopAnchor(t) ==
    CHOOSE a \in {t.candidates[n].anc_id : n \in DOMAIN t.candidates} :
        \A n \in DOMAIN t.candidates :
            LET k == t.candidates[CHOOSE m \in DOMAIN t.candidates : t.candidates[m].anc_id = a]
                o == t.candidates[n]
            IN  \/ RGt(k.score, o.score)
                \/ (k.score = o.score /\ ~StrLess(k.anc_id, o.anc_id))

\* C5 as stated: unprofitable pairs are dropped before scoring and selection,
\* so a low-seller with at least one retained anchor whose bundle is
\* profitable receives a suggestion.
C5_ProfitableAnchorGetsSuggestion ==
    \A i \in DOMAIN trace :
        (\E n \in DOMAIN trace[i].anchors :
            ProfitablePair(trace[i].branch_id, trace[i].anchors[n].item_id, trace[i].low))
        => trace[i].emitted

\* C5 amended: the profit bar is applied after selection, to the single
\* highest-scoring retained anchor: a low-seller receives a suggestion exactly
\* when the bundle with that anchor is profitable, and then with that anchor.
C5_SelectedThenPriced ==
    /\ RowsMatchTrace
    /\ \A i \in DOMAIN trace :
          /\ trace[i].best.anc_id = TopAnchor(trace[i])
          /\ trace[i].emitted <=>
                ProfitablePair(trace[i].branch_id, TopAnchor(trace[i]), trace[i].low)

\* C5 witness: a low-seller dropped although another retained anchor makes a
\* profitable bundle with it
C5_Witness ==
    \E i \in DOMAIN trace :
        /\ ~trace[i].emitted
        /\ \E n \in DOMAIN trace[i].anchors :
              ProfitablePair(trace[i].branch_id, trace[i].anchors[n].item_id, trace[i].low)

-----------------------------------------------------------------------------
(* Branches.                                                               *)

\* the rows of branch b
SliceOf(rows, b) == SelectSeq(rows, LAMBDA r : r.branch_id = b)

\* the table df without the rows of the other branches; None stays None
RestrictRows(df, b) == IF df.none THEN df ELSE [df EXCEPT !.rows = SliceOf(df.rows, b)]

\* the transaction rows of one basket of a branch that has no sales rows,
\* holding two items that no sales row names
ForeignBasket ==
    <<[branch_id |-> <<"9">>, order_id |-> Str(1), item_id |-> <<"8">>],
      [branch_id |-> <<"9">>, order_id |-> Str(1), item_id |-> <<"9">>]>>

\* the transactions of branch b alone, and with them a basket of another
\* branch when the run mined some pair, so that a run on them uses the
\* estimator this run uses
OwnTransactions(b) ==
    IF Estimator(pair_df) = "pair_stats"
    THEN Table(TxnCols, SliceOf(transactions.rows, b) \o ForeignBasket)
    ELSE RestrictRows(transactions, b)

\* C4 as stated: the suggestions returned for a branch, in their order, are
\* those a run returns on that branch's rows of item_sales and of
\* transactions alone: the rows of the other branches change nothing.
C4_BranchIndependent ==
    pc = "done" =>
        \A b \in {BranchOne, BranchTwo} :
            SliceOf(df_out.rows, b)
            = GenerateBundleSuggestions(RestrictRows(item_sales, b),
                                        RestrictRows(transactions, b), cfg).rows

\* C4 as amended: the suggestions returned for a branch, in their order, are
\* those a run returns on that branch's rows of item_sales and of
\* transactions alone, provided that run uses the same estimator: the rows of
\* the other branches matter only through whether the run mined any pair.
C4_BranchIndependentGivenEstimator ==
    pc = "done" =>
        \A b \in {BranchOne, BranchTwo} :
            SliceOf(df_out.rows, b)
            = GenerateBundleSuggestions(RestrictRows(item_sales, b),
                                        OwnTransactions(b), cfg).rows

\* a run that mined a pair of branch "2", has a transaction row of branch "1",
\* and returned suggestions for both branches
C4_Witness ==
    /\ pc = "done"
    /\ \E r \in Range(pair_df.rows) : r.branch_id = BranchTwo
    /\ SliceOf(transactions.rows, BranchOne) # <<>>
    /\ SliceOf(df_out.rows, BranchOne) # <<>>
    /\ SliceOf(df_out.rows, BranchTwo) # <<>>

\* C6: the fallback estimator is used only when transactions is None or has
\* no rows; with a non-empty transactions table the support and lift of every
\* candidate are the miner's (the pair's row, or support 0 and lift 1 when
\* the pair has no row).
C6_FallbackOnlyWithoutTransactions ==
    \A n \in DOMAIN trace :
        HasTransactions(transactions) =>
            /\ trace[n].estimator = "pair_stats"
            /\ \A k \in DOMAIN trace[n].candidates :
                  LET cand == trace[n].candidates[k]
                      key == PairKey(trace[n].low.item_id, cand.anc_id)
                      mined == SelectSeq(pair_df.rows,
                                   LAMBDA r : /\ r.branch_id = trace[n].branch_id
                                              /\ r.a = key[1] /\ r.b = key[2])
                  IN  IF mined = <<>>
                      THEN cand.support = RZero /\ cand.lift = ROne
                      ELSE cand.support = mined[1].support /\ cand.lift = mined[1].lift

-----------------------------------------------------------------------------
(* The pair miner.  Baskets and counts are recomputed here from the rows   *)
(* of transactions, as sets.                                               *)

\* the baskets of branch b: its order ids
BasketsOf(b) == {r.order_id : r \in {x \in Range(transactions.rows) : x.branch_id = b}}

\* the baskets of branch b that hold every item of the set S
BasketsWith(b, S) ==
    {o \in BasketsOf(b) :
        \A i \in S : \E r \in Range(transactions.rows) :
            r.branch_id = b /\ r.order_id = o /\ r.item_id = i}

TxnBranches == {r.branch_id : r \in Range(transactions.rows)}
TxnItems == {r.item_id : r \in Range(transactions.rows)}

\* the rows of pair_df for the unordered pair {x, y} of branch b
PairRowsOf(b, x, y) ==
    SelectSeq(pair_df.rows, LAMBDA r : r.branch_id = b /\ {r.a, r.b} = {x, y})

\* C7: for each branch with T baskets, pair_df holds exactly one row for
\* every unordered pair of distinct items that share a basket of the branch,
\* with support = c_ab / T and lift = support / (support(a) * support(b)),
\* 0 when that denominator is 0, the counts taken over the branch's baskets;
\* it holds no row for a pair that shares no basket, and no other row.
C7_PairRowsAreTheCooccurringPairs ==
    pc = "mined" =>
        /\ \A b \in TxnBranches : \A x \in TxnItems : \A y \in TxnItems \ {x} :
              LET T == Cardinality(BasketsOf(b))
                  c_ab == Cardinality(BasketsWith(b, {x, y}))
                  support == Rat(c_ab, T)
                  denom == RMul(Rat(Cardinality(BasketsWith(b, {x})), T),
                                Rat(Cardinality(BasketsWith(b, {y})), T))
                  found == PairRowsOf(b, x, y)
              IN  IF c_ab = 0 THEN found = <<>>
                  ELSE /\ Len(found) = 1
                       /\ found[1].support = support
                       /\ found[1].lift = IF denom[1] = 0 THEN RZero ELSE RDiv(support, denom)
        /\ \A r \in Range(pair_df.rows) :
              r.branch_id \in TxnBranches /\ r.a \in TxnItems /\ r.b \in TxnItems /\ r.a # r.b

\* a branch with two baskets, a pair sharing one of them (support 1/2,
\* lift 2), and two of its items that share no basket
C7_Witness ==
    /\ pc = "mined"
    /\ \E r \in Range(pair_df.rows) : r.support = Rat(1, 2) /\ r.lift = RInt(2)
    /\ \E b \in TxnBranches : \E x \in TxnItems : \E y \in TxnItems \ {x} :
          /\ BasketsWith(b, {x}) # {} /\ BasketsWith(b, {y}) # {}
          /\ BasketsWith(b, {x, y}) = {}
          /\ PairRowsOf(b, x, y) = <<>>

\* the orders of a set S: the one-to-one sequences of all its elements
OrdersOf(S) ==
    {q \in [1..Cardinality(S) -> S] : \A i, j \in DOMAIN q : i # j => q[i] # q[j]}

\* the items of a basket in the order q of all items
ItemsInOrder(items, q) == SelectSeq(q, LAMBDA i : i \in Range(items))

\* the baskets bk with the items of every basket in the order q
BasketsInOrder(bk, q) ==
    [bk EXCEPT !.rows = [n \in DOMAIN bk.rows |->
        [bk.rows[n] EXCEPT !.items = ItemsInOrder(bk.rows[n].items, q)]]]

\* the table df with its rows in the order p of their indexes
RowsInOrder(df, p) == [df EXCEPT !.rows = [n \in DOMAIN p |-> df.rows[p[n]]]]

\* C8: the set of rows mined is the same for every order of the items inside
\* the baskets and for every order of the transaction rows.
C8_MiningIgnoresOrder ==
    pc = "mined" =>
        /\ \A q \in OrdersOf(TxnItems) :
              Range(PairStats(BasketsInOrder(baskets, q)).rows) = Range(pair_df.rows)
        /\ \A p \in OrdersOf(DOMAIN transactions.rows) :
              Range(PairStats(BuildTransactions(RowsInOrder(transactions, p))).rows)
              = Range(pair_df.rows)

\* a basket of three items, mined to three rows, whose transaction rows do
\* not come in item order
C8_Witness ==
    /\ pc = "mined"
    /\ Len(pair_df.rows) = 3
    /\ \E n \in DOMAIN baskets.rows : Len(baskets.rows[n].items) = 3
    /\ \E i, j \in DOMAIN transactions.rows :
          /\ i < j
          /\ transactions.rows[i].branch_id = transactions.rows[j].branch_id
          /\ transactions.rows[i].order_id = transactions.rows[j].order_id
          /\ StrLess(transactions.rows[j].item_id, transactions.rows[i].item_id)

-----------------------------------------------------------------------------
(* Association and selection.                                              *)

\* the share of the baskets of branch b that hold item x
SingleSupport(b, x) ==
    IF BasketsOf(b) = {} THEN RZero
    ELSE Rat(Cardinality(BasketsWith(b, {x})), Cardinality(BasketsOf(b)))

\* a candidate one of whose two items is in no basket of the branch
NoSingleSupport(t, cand) ==
    \/ SingleSupport(t.branch_id, cand.anc_id) = RZero
    \/ SingleSupport(t.branch_id, t.low.item_id) = RZero

\* C9 as stated: when the run uses the pair miner, the support and lift of
\* every candidate and of every emitted suggestion are >= 0, and a
\* candidate's lift is 0 exactly when the anchor or the low-seller is in no
\* basket of the branch.
C9_LiftZeroIffNoSupport ==
    \A n \in DOMAIN trace :
        trace[n].estimator = "pair_stats" =>
            /\ \A k \in DOMAIN trace[n].candidates :
                  LET cand == trace[n].candidates[k]
                  IN  /\ RGe(cand.support, RZero)
                      /\ RGe(cand.lift, RZero)
                      /\ (cand.lift = RZero) <=> NoSingleSupport(trace[n], cand)
            /\ trace[n].emitted =>
                  /\ RGe(Suggestion(trace[n]).support, RZero)
                  /\ RGe(Suggestion(trace[n]).lift, RZero)

\* C9 as amended: when the run uses the pair miner, the support of every
\* candidate is >= 0 and its lift is > 0, never 0; a candidate whose anchor or
\* low-seller is in no basket of the branch has support 0 and lift 1; the
\* rounded support and lift of every emitted suggestion are >= 0.
C9_LiftPositive ==
    \A n \in DOMAIN trace :
        trace[n].estimator = "pair_stats" =>
            /\ \A k \in DOMAIN trace[n].candidates :
                  LET cand == trace[n].candidates[k]
                  IN  /\ RGe(cand.support, RZero)
                      /\ RGt(cand.lift, RZero)
                      /\ NoSingleSupport(trace[n], cand) =>
                            cand.support = RZero /\ cand.lift = ROne
            /\ trace[n].emitted =>
                  /\ RGe(Suggestion(trace[n]).support, RZero)
                  /\ RGe(Suggestion(trace[n]).lift, RZero)

\* a low-seller scored under the pair miner against one anchor it shares a
\* basket with and one anchor that is in no basket
C9_Witness ==
    \E n \in DOMAIN trace :
        /\ trace[n].estimator = "pair_stats"
        /\ \E k \in DOMAIN trace[n].candidates :
              RGt(trace[n].candidates[k].support, RZero)
        /\ \E k \in DOMAIN trace[n].candidates :
              SingleSupport(trace[n].branch_id, trace[n].candidates[k].anc_id) = RZero

\* the anchors of branch b retained from sales: units_sold at or above the
\* anchor quantile and unit_margin at or above the minimum
RetainedAnchorIds(b) ==
    LET g == {r \in Range(sales.rows) : r.branch_id = b}
        units == [i \in 1..Len(SliceOf(sales.rows, b)) |-> SliceOf(sales.rows, b)[i].units_sold]
        q_anchor == Quantile(units, cfg.anchor_sales_quantile)
    IN  {r.item_id : r \in {x \in g : /\ RGe(RInt(x.units_sold), q_anchor)
                                      /\ RGe(x.unit_margin, cfg.min_unit_margin)}}

\* candidate_score from the sales rows and the candidate's support and lift,
\* in tenths: 5 anchor units + 100 lift + 200 support - low units
ScoreInTenths(t, cand) ==
    RSub(RAdd(RAdd(RInt(5 * SalesRowOf(t.branch_id, cand.anc_id).units_sold),
                   RMul(RInt(100), cand.lift)),
              RMul(RInt(200), cand.support)),
         RInt(SalesRowOf(t.branch_id, t.low.item_id).units_sold))

\* C10: for every low-seller the candidates are the retained anchors of its
\* branch, the anchor paired with it is one of them, and none of them has a
\* strictly higher candidate_score than the paired one.
C10_SelectedMaximizesScore ==
    \A n \in DOMAIN trace :
        LET t == trace[n]
        IN  /\ {t.candidates[k].anc_id : k \in DOMAIN t.candidates}
               = RetainedAnchorIds(t.branch_id)
            /\ \E k \in DOMAIN t.candidates : t.candidates[k] = t.best
            /\ \A k \in DOMAIN t.candidates :
                  ~RGt(ScoreInTenths(t, t.candidates[k]), ScoreInTenths(t, t.best))

\* a low-seller with two retained anchors of different score, paired with the
\* anchor of lower volume because that one shares baskets with it
C10_Witness ==
    \E n \in DOMAIN trace :
        \E k \in DOMAIN trace[n].candidates :
            LET t == trace[n]
                other == t.candidates[k]
            IN  /\ RLt(ScoreInTenths(t, other), ScoreInTenths(t, t.best))
                /\ SalesRowOf(t.branch_id, other.anc_id).units_sold
                   > SalesRowOf(t.branch_id, t.best.anc_id).units_sold
                /\ RGt(t.best.support, RZero)

-----------------------------------------------------------------------------
(* Ties between anchors.                                                   *)

\* one branch without transactions, anchors of equal volume and different
\* margin, the default anchor quantile and the median
InitTies ==
    \E profs \in [1..MaxItems -> {Slow, Thin, Strong}], c \in AssocCfgs :
        Start(Table(SalesCols, BranchSales(BranchOne, profs)), None, c)

SpecTies == InitTies /\ [][Next]_vars

\* the candidates of t that no candidate of t outscores
TopScored(t) ==
    {k \in DOMAIN t.candidates :
        \A j \in DOMAIN t.candidates : ~RGt(t.candidates[j].score, t.candidates[k].score)}

\* the anchor a run on the table is pairs with the low-seller low_id of
\* branch b
SelectedAnchorIn(is, b, low_id) ==
    LET sl == InferPriceCost(is)
        g == BranchGroup(sl, b)
        low == SelectSeq(g, LAMBDA r : r.item_id = low_id)[1]
    IN  Bundle(pair_df, sl, b, low, Anchors(g, cfg), cfg).best.anc_id

\* once the run has returned: the anchor paired with the low-seller of t is
\* the same for every order of the rows of item_sales
SameForEveryRowOrder(t) ==
    pc = "done" => \A p \in OrdersOf(DOMAIN item_sales.rows) :
        SelectedAnchorIn(RowsInOrder(item_sales, p), t.branch_id, t.low.item_id)
        = t.best.anc_id

\* C11 as stated: when several retained anchors share the highest
\* candidate_score for a low-seller, the one with the smallest item id is
\* paired with it, whatever the order of the rows of item_sales.
C11_TieBrokenAscending ==
    \A n \in DOMAIN trace :
        Cardinality(TopScored(trace[n])) >= 2 =>
            /\ \A k \in TopScored(trace[n]) :
                  ~StrLess(trace[n].candidates[k].anc_id, trace[n].best.anc_id)
            /\ SameForEveryRowOrder(trace[n])

\* C11 as amended: when several retained anchors share the highest
\* candidate_score for a low-seller, the one with the largest item id (as a
\* string) is paired with it, whatever the order of the rows of item_sales.
C11_TieBrokenDescending ==
    \A n \in DOMAIN trace :
        Cardinality(TopScored(trace[n])) >= 2 =>
            /\ \E k \in TopScored(trace[n]) : trace[n].candidates[k] = trace[n].best
            /\ \A k \in TopScored(trace[n]) :
                  ~StrLess(trace[n].best.anc_id, trace[n].candidates[k].anc_id)
            /\ SameForEveryRowOrder(trace[n])

\* a low-seller with two anchors of the same highest score, paired with the
\* one of larger id
C11_Witness ==
    \E n \in DOMAIN trace :
        /\ Cardinality(TopScored(trace[n])) >= 2
        /\ \E k \in TopScored(trace[n]) :
              StrLess(trace[n].candidates[k].anc_id, trace[n].best.anc_id)

-----------------------------------------------------------------------------
(* The pricer.                                                             *)

\* min(max_discount_pct, max(0, 1 - min_keep)) for a pair of this full price
\* and cost, before small discounts are dropped
UnflooredDiscount(full_price, full_cost) ==
    LET denom == RMul(RSub(ROne, cfg.target_bundle_margin), full_price)
        min_keep == IF RGt(denom, RZero) THEN RDiv(full_cost, denom) ELSE ROne
    IN  RMin(cfg.max_discount_pct, RMax(RZero, RSub(ROne, min_keep)))

\* C12: for the selected pair, with full_price and full_cost the sums of the
\* two items' price and unit_cost in sales, the discount is
\* min(max_discount_pct, max(0, 1 - min_keep)), replaced by 0 when below 0.01;
\* bundle_price = full_price * (1 - discount); expected_profit = bundle_price
\* - full_cost; and a pair whose discount was replaced by 0 is emitted exactly
\* when full_price - full_cost > 0.
C12_PricerFormula ==
    \A n \in DOMAIN trace :
        LET t == trace[n]
            full_price == PairPrice(t.branch_id, t.best.anc_id, t.low)
            full_cost == PairCost(t.branch_id, t.best.anc_id, t.low)
            d == UnflooredDiscount(full_price, full_cost)
            small == RLt(d, Rat(1, 100))
        IN  /\ t.discount = IF small THEN RZero ELSE d
            /\ t.bundle_price = RMul(full_price, RSub(ROne, t.discount))
            /\ t.expected_profit = RSub(t.bundle_price, full_cost)
            /\ small => (t.emitted <=> RGt(RSub(full_price, full_cost), RZero))

\* a pair whose discount, positive and below 0.01, was replaced by 0 and that
\* was emitted at full price
C12_Witness ==
    \E n \in DOMAIN trace :
        LET t == trace[n]
            d == UnflooredDiscount(PairPrice(t.branch_id, t.best.anc_id, t.low),
                                   PairCost(t.branch_id, t.best.anc_id, t.low))
        IN  /\ RGt(d, RZero) /\ RLt(d, Rat(1, 100))
            /\ t.discount = RZero
            /\ t.emitted
            /\ \E r \in Range(out_rows) :
                  r.bundle_items = <<t.best.anc_id, t.low.item_id>> /\ r.discount_pct = RZero

-----------------------------------------------------------------------------
(* Ranking and the per-branch cut.                                         *)

\* two branches without transactions, several low-sellers per branch, and a
\* cut of one row, of two rows and of more rows than a branch can have
TopKChoices == {1, 2, 10}

InitRank ==
    \E profs \in [1..MaxItems -> {Slow, SlowFlat, Strong}], k \in TopKChoices :
        Start(Table(SalesCols, BranchSales(BranchOne, profs)
                               \o BranchSales(BranchTwo, <<SlowFlat, Slow, Strong>>)),
              None, [DefaultCfg EXCEPT !.top_k_per_branch = k])

SpecRank == InitRank /\ [][Next]_vars

\* the branches of the returned rows and of the emitted suggestions
OutBranches == {r.branch_id : r \in Range(out_rows)}

\* C13: once the run has returned, no branch_id is in more than
\* top_k_per_branch rows of the returned table.
C13_AtMostTopKPerBranch ==
    pc = "done" =>
        \A b \in OutBranches \cup {r.branch_id : r \in Range(df_out.rows)} :
            Len(SliceOf(df_out.rows, b)) <= cfg.top_k_per_branch

\* a branch with more emitted suggestions than top_k_per_branch, returned
\* with exactly top_k_per_branch rows
C13_Witness ==
    /\ pc = "done"
    /\ \E b \in OutBranches :
          /\ Len(SliceOf(out_rows, b)) > cfg.top_k_per_branch
          /\ Len(SliceOf(df_out.rows, b)) = cfg.top_k_per_branch

\* expected_profit + 2 * lift + 50 * support of a suggestion
RowScore(r) == RAdd(r.expected_profit, RAdd(RMul(RInt(2), r.lift), RMul(RInt(50), r.support)))

\* the emitted suggestions of branch b, as rows of the table before ranking
EmittedRows(b) ==
    LET own == SliceOf(out_rows, b)
    IN  [n \in DOMAIN own |-> [own[n] EXCEPT !.bundle_items = Join(own[n].bundle_items)]]

\* C14: once the run has returned, the rows of each branch are emitted
\* suggestions of that branch in non-increasing order of ranking_score, and no
\* emitted suggestion of the branch that is not returned has a ranking_score
\* strictly greater than one that is.
C14_BestKeptInScoreOrder ==
    pc = "done" =>
        \A b \in OutBranches :
            LET kept == SliceOf(df_out.rows, b)
                dropped == Range(EmittedRows(b)) \ Range(kept)
            IN  /\ Range(kept) \subseteq Range(EmittedRows(b))
                /\ \A i, j \in DOMAIN kept :
                      i < j => RGe(RowScore(kept[i]), RowScore(kept[j]))
                /\ \A r \in dropped : \A k \in Range(kept) :
                      ~RGt(RowScore(r), RowScore(k))

\* a branch whose suggestions were emitted in another order than that of
\* their scores, returned without the one of lowest score
C14_Witness ==
    /\ pc = "done"
    /\ \E b \in OutBranches :
          LET all == EmittedRows(b)
              kept == SliceOf(df_out.rows, b)
          IN  /\ \E i, j \in DOMAIN all : i < j /\ RLt(RowScore(all[i]), RowScore(all[j]))
              /\ \E r \in Range(all) \ Range(kept) :
                    \A k \in Range(kept) : RLt(RowScore(r), RowScore(k))
              /\ kept # <<>>

-----------------------------------------------------------------------------
(* The normalizer on tables of every column layout.                        *)

\* an item that sold nothing
Idle == [units_sold |-> 0, price |-> 3, unit_cost |-> 2]

\* the value of column col for item i of branch b with economics prof, in a
\* table of columns cols: revenue, cost and profit are totals over the units
\* sold when the table has a units column, per unit otherwise
CellOf(b, i, prof, col, cols) ==
    LET units == IF {"units_sold", "units"} \cap cols # {} THEN prof.units_sold ELSE 1
    IN  CASE col = "branch_id" -> b
          [] col \in {"item_id", "product_id"} -> Str(i)
          [] col \in {"units_sold", "units"} -> prof.units_sold
          [] col \in {"price", "unit_price"} -> RInt(prof.price)
          [] col = "unit_cost" -> RInt(prof.unit_cost)
          [] col = "revenue" -> RInt(units * prof.price)
          [] col = "cost" -> RInt(units * prof.unit_cost)
          [] col = "profit" -> RInt(units * (prof.price - prof.unit_cost))

\* the table of columns cols with one row per item of branch "1"
LayoutTable(cols, profs) ==
    Table(cols, [i \in DOMAIN profs |->
                    [col \in cols |-> CellOf(BranchOne, i, profs[i], col, cols)]])

\* column layouts: with and without each identifier, the units column under
\* both names or absent, one price column or none, one cost column or none
Layouts ==
    {ids \cup units \cup price \cup cost :
        ids \in {{"branch_id", "item_id"}, {"branch_id", "product_id"},
                 {"branch_id"}, {"item_id"}},
        units \in {{"units_sold"}, {"units"}, {}},
        price \in {{"price"}, {"unit_price"}, {"revenue"}, {}},
        cost \in {{"cost"}, {"unit_cost"}, {"profit"}, {}}}

\* no rows; a low-seller above cost, at cost, or that sold nothing, with an
\* anchor; two items at cost, neither of them an anchor
LayoutRows ==
    {<<>>, <<Slow, Strong>>, <<SlowFlat, Strong>>, <<Idle, Strong>>, <<SlowFlat, SlowFlat>>}

InitNormalize ==
    \E cols \in Layouts, profs \in LayoutRows :
        Start(LayoutTable(cols, profs), None, DefaultCfg)

SpecNormalize == InitNormalize /\ [][Next]_vars

\* the columns of item_sales under the names the normalizer gives them
Renamed(cols) ==
    LET c1 == IF "product_id" \in cols /\ "item_id" \notin cols
              THEN (cols \ {"product_id"}) \cup {"item_id"} ELSE cols
    IN  IF "units" \in c1 /\ "units_sold" \notin c1
        THEN (c1 \ {"units"}) \cup {"units_sold"} ELSE c1

\* the normalizer has returned a table
Normalized == pc \notin {"start", "error"}

\* C16: every row the normalizer returns has unit_profit = price - unit_cost
\* and unit_margin = unit_profit / price when price > 0, 0 otherwise.
C16_RowsAreConsistent ==
    Normalized =>
        \A r \in Range(sales.rows) :
            /\ r.unit_profit = RSub(r.price, r.unit_cost)
            /\ r.unit_margin = IF RGt(r.price, RZero) THEN RDiv(r.unit_profit, r.price)
                               ELSE RZero

\* C17: a run on an item_sales table without branch_id, or with neither
\* item_id nor product_id, never returns a table.
C17_MissingIdColumnsRejected ==
    ("branch_id" \notin item_sales.columns
     \/ {"item_id", "product_id"} \cap item_sales.columns = {})
        => pc # "done"

\* a price and a cost can be resolved from the columns of item_sales
Resolvable ==
    LET cols == Renamed(item_sales.columns)
    IN  /\ {"price", "unit_price"} \cap cols # {} \/ {"revenue", "units_sold"} \subseteq cols
        /\ {"cost", "unit_cost"} \cap cols # {} \/ {"profit", "revenue"} \subseteq cols

\* C18: the normalizer raises its ValueError exactly when no price or no cost
\* can be resolved from the columns; when it raises, no branch has been
\* visited and nothing is returned; when it does not, it returns one row per
\* row of item_sales with price, cost, unit_cost, unit_profit and unit_margin.
C18_FailsIffUnresolvable ==
    pc # "start" =>
        IF Resolvable
        THEN /\ ~IsError(sales)
             /\ Len(sales.rows) = Len(item_sales.rows)
             /\ {"price", "cost", "unit_cost", "unit_profit", "unit_margin"}
                \subseteq sales.columns
        ELSE /\ pc = "error"
             /\ IsError(sales)
             /\ trace = <<>> /\ out_rows = <<>> /\ todo = <<>> /\ df_out = None

\* a table with rows that gives a price (revenue over units) but no cost,
\* rejected by the normalizer
C18_Witness ==
    /\ pc = "error"
    /\ {"revenue", "units"} \subseteq item_sales.columns
    /\ "profit" \notin item_sales.columns
    /\ item_sales.rows # <<>>

-----------------------------------------------------------------------------
(* Keyword arguments outside their ranges.                                 *)

\* the defaults, and the defaults with one of min_unit_margin,
\* target_bundle_margin, max_discount_pct outside [0, 1] or with
\* top_k_per_branch = 0
RangeCfgs ==
    {DefaultCfg,
     [DefaultCfg EXCEPT !.min_unit_margin = RInt(2)],
     [DefaultCfg EXCEPT !.min_unit_margin = RInt(-1)],
     [DefaultCfg EXCEPT !.target_bundle_margin = RInt(2)],
     [DefaultCfg EXCEPT !.target_bundle_margin = Rat(-1, 2)],
     [DefaultCfg EXCEPT !.max_discount_pct = RInt(2)],
     [DefaultCfg EXCEPT !.max_discount_pct = Rat(-1, 4)],
     [DefaultCfg EXCEPT !.top_k_per_branch = 0]}

InitConfig ==
    \E profs \in [1..MaxItems -> {Slow, Thin, Strong}], c \in RangeCfgs :
        Start(Table(SalesCols, BranchSales(BranchOne, profs)), None, c)

SpecConfig == InitConfig /\ [][Next]_vars

\* x is in [0, 1]
InUnitInterval(x) == RGe(x, RZero) /\ RLe(x, ROne)

\* every keyword argument is in its range
CfgInRange ==
    /\ InUnitInterval(cfg.low_sales_quantile)
    /\ InUnitInterval(cfg.anchor_sales_quantile)
    /\ InUnitInterval(cfg.min_unit_margin)
    /\ InUnitInterval(cfg.target_bundle_margin)
    /\ InUnitInterval(cfg.max_discount_pct)
    /\ cfg.top_k_per_branch >= 1

\* C19: a run whose keyword arguments are not all in range emits no
\* suggestion and returns no table.
C19_ConfigValidated ==
    ~CfgInRange => (out_rows = <<>> /\ pc # "done")

-----------------------------------------------------------------------------
(* Low-sellers and anchors.                                                *)

\* a branch with more qualifying anchors than TopAnchors
BigCount == TopAnchors + MaxItems

\* item i of the big branch: units_sold 10 .. 9 + BigCount, every value once
\* and not in item order, unit margin 1/2
BigProfile(i) == [units_sold |-> 10 + ((7 * i) % BigCount), price |-> 10, unit_cost |-> 5]

BigSales == Table(SalesCols, BranchSales(BranchOne, [i \in 1..BigCount |-> BigProfile(i)]))

\* the item of the big branch with the k-th lowest units_sold
BigItem(k) == Str(CHOOSE i \in 1..BigCount : BigProfile(i).units_sold = 9 + k)

\* one basket holding the items x and y
OneBasket(x, y) ==
    Table(TxnCols, <<[branch_id |-> BranchOne, order_id |-> Str(1), item_id |-> x],
                     [branch_id |-> BranchOne, order_id |-> Str(1), item_id |-> y]>>)

\* the lowest item is the only low-seller; every item, or the upper half, is
\* a qualifying anchor
BigCfgs ==
    {[DefaultCfg EXCEPT !.low_sales_quantile = RZero, !.anchor_sales_quantile = q] :
        q \in {RZero, Rat(1, 2)}}

\* the big branch without transactions, and with the low-seller in a basket
\* with the second or the last but one of the items by units_sold
BigTransactions ==
    {None, OneBasket(BigItem(1), BigItem(2)), OneBasket(BigItem(1), BigItem(BigCount - 1))}

\* small branches of every mix of item economics under the default quantiles
\* and the quantiles 1/2; the big branch
InitSelect ==
    \/ \E profs \in [1..MaxItems -> EconProfiles \cup {Steady}],
          c \in {DefaultCfg, [DefaultCfg EXCEPT !.low_sales_quantile = Rat(1, 2),
                                                !.anchor_sales_quantile = Rat(1, 2)]} :
          Start(Table(SalesCols, BranchSales(BranchOne, profs)), None, c)
    \/ \E tr \in BigTransactions, c \in BigCfgs : Start(BigSales, tr, c)

SpecSelect == InitSelect /\ [][Next]_vars

\* the rows of sales of branch b that qualify as anchors
QualifyingRows(b) ==
    LET g == SliceOf(sales.rows, b)
        anchor_thr == Quantile([i \in DOMAIN g |-> g[i].units_sold], cfg.anchor_sales_quantile)
    IN  {r \in Range(g) : /\ RGe(RInt(r.units_sold), anchor_thr)
                          /\ RGe(r.unit_margin, cfg.min_unit_margin)}

\* units_sold * unit_margin
StrengthOf(r) == RMul(RInt(r.units_sold), r.unit_margin)

\* C20: every emitted suggestion pairs a low-seller with units_sold at or
\* below the low quantile of its branch with an anchor that qualifies
\* (units_sold at or above the anchor quantile of the branch, unit_margin at
\* or above min_unit_margin) and that fewer than 30 qualifying anchors of the
\* branch exceed in anchor_strength.
C20_LowWithTopAnchor ==
    \A n \in DOMAIN trace :
        trace[n].emitted =>
            LET t == trace[n]
                g == SliceOf(sales.rows, t.branch_id)
                low_thr == Quantile([i \in DOMAIN g |-> g[i].units_sold],
                                    cfg.low_sales_quantile)
                low == SalesRowOf(t.branch_id, t.low.item_id)
                anc == SalesRowOf(t.branch_id, t.best.anc_id)
            IN  /\ RLe(RInt(low.units_sold), low_thr)
                /\ anc \in QualifyingRows(t.branch_id)
                /\ Cardinality({r \in QualifyingRows(t.branch_id) :
                                   RGt(StrengthOf(r), StrengthOf(anc))}) < TopAnchors
                /\ \E r \in Range(out_rows) :
                      r.branch_id = t.branch_id
                      /\ r.bundle_items = <<t.best.anc_id, t.low.item_id>>

\* an emitted suggestion of a branch with more than 30 qualifying anchors,
\* whose low-seller shares a basket with a qualifying anchor that is not
\* among the 30 strongest
C20_Witness ==
    \E n \in DOMAIN trace :
        /\ trace[n].emitted
        /\ Cardinality(QualifyingRows(trace[n].branch_id)) > TopAnchors
        /\ Len(trace[n].candidates) = TopAnchors
        /\ \E p \in Range(pair_df.rows) : \E r \in QualifyingRows(trace[n].branch_id) :
              /\ {p.a, p.b} = {trace[n].low.item_id, r.item_id}
              /\ r.item_id # trace[n].low.item_id
              /\ Cardinality({x \in QualifyingRows(trace[n].branch_id) :
                                 RGt(StrengthOf(x), StrengthOf(r))}) >= TopAnchors

-----------------------------------------------------------------------------
(* Skipped branches.                                                       *)

\* branch "2" without a qualifying anchor, or with a low-seller and an anchor
SecondBranches == {<<SlowFlat, SlowFlat>>, <<Slow, Strong>>}

\* no transactions, a single row, a basket of two items of branch "1", a
\* basket of two items of branch "2"
SkipTransactions ==
    {None,
     Table(TxnCols, <<[branch_id |-> BranchOne, order_id |-> Str(1), item_id |-> Str(1)]>>),
     OneBasket(Str(1), Str(2)),
     Table(TxnCols, <<[branch_id |-> BranchTwo, order_id |-> Str(1), item_id |-> Str(1)],
                      [branch_id |-> BranchTwo, order_id |-> Str(1), item_id |-> Str(2)]>>)}

\* two branches with a month column; either can be without a qualifying anchor
InitSkip ==
    \E profs \in [1..MaxItems -> {Slow, SlowFlat, Strong}], months \in MonthChoices,
       second \in SecondBranches, tr \in SkipTransactions :
        Start(Table(SalesCols \cup {"month"},
                    MonthlySales(BranchOne, profs, months)
                    \o MonthlySales(BranchTwo, second, <<1, 1>>)),
              tr, DefaultCfg)

SpecSkip == InitSkip /\ [][Next]_vars

\* the table df without the rows of branch b; None stays None
WithoutBranch(df, b) ==
    IF df.none THEN df ELSE [df EXCEPT !.rows = SelectSeq(df.rows, LAMBDA r : r.branch_id # b)]

\* the low-seller set or the anchor set of branch b of sales is empty
EmptyBranch(b) ==
    LET g == SliceOf(sales.rows, b)
        thr == Quantile([i \in DOMAIN g |-> g[i].units_sold], cfg.low_sales_quantile)
    IN  \/ \A r \in Range(g) : ~RLe(RInt(r.units_sold), thr)
        \/ QualifyingRows(b) = {}

\* C21 as stated: a branch whose low-seller set or anchor set is empty raises
\* no error and has no suggestion, and the returned table is what a run
\* returns on the input without that branch, without its rows of item_sales
\* and of transactions.
C21_SkippedBranchAbsent ==
    /\ pc \notin {"error", "key_error"}
    /\ pc = "done" =>
          \A b \in {BranchOne, BranchTwo} :
              EmptyBranch(b) =>
                  /\ SliceOf(df_out.rows, b) = <<>>
                  /\ df_out.rows = GenerateBundleSuggestions(WithoutBranch(item_sales, b),
                                        WithoutBranch(transactions, b), cfg).rows

\* C21 as amended: a branch whose low-seller set or anchor set is empty raises
\* no error and has no suggestion, and the returned table is what a run
\* returns on item_sales without the rows of that branch and the same
\* transactions.
C21_SkippedBranchNoSales ==
    /\ pc \notin {"error", "key_error"}
    /\ pc = "done" =>
          \A b \in {BranchOne, BranchTwo} :
              EmptyBranch(b) =>
                  /\ SliceOf(df_out.rows, b) = <<>>
                  /\ df_out.rows = GenerateBundleSuggestions(WithoutBranch(item_sales, b),
                                        transactions, cfg).rows

\* branch "1" was skipped for want of an anchor, and the run went on to
\* return a suggestion of branch "2"
C21_Witness ==
    /\ pc = "done"
    /\ SliceOf(sales.rows, BranchOne) # <<>>
    /\ EmptyBranch(BranchOne)
    /\ trace # <<>>
    /\ SliceOf(df_out.rows, BranchTwo) # <<>>

-----------------------------------------------------------------------------
(* The basket builder: the grouping columns of the transactions table.     *)

KeyCols == {"order_id", "customer_id", "date"}

\* customer ids and dates, some with the character that joins them
CustomerIds == <<Str(1), Str(1) \o <<"_">> \o Str(2)>>
Dates == <<Str(3), Str(2) \o <<"_">> \o Str(3)>>

\* transaction row number n with every column
FullRow(n) ==
    [branch_id |-> IF n % 2 = 0 THEN BranchOne ELSE BranchTwo,
     item_id |-> Str(1 + ((n \div 2) % 2)),
     order_id |-> OrderIds[1 + ((n \div 4) % 2)],
     customer_id |-> CustomerIds[1 + ((n \div 8) % 2)],
     date |-> Dates[1 + ((n \div 16) % 2)]]

\* DataFrame[cols] of a row and of a table
ProjectRow(r, cols) == [c \in cols |-> r[c]]
Project(df, cols) == Table(cols, [i \in DOMAIN df.rows |-> ProjectRow(df.rows[i], cols)])

\* tables of at most MaxBasketRows rows with branch_id, item_id and every
\* choice of grouping columns
BasketTables ==
    {Table({"branch_id", "item_id"} \cup k,
           [i \in DOMAIN s |-> ProjectRow(FullRow(s[i]), {"branch_id", "item_id"} \cup k)]) :
        k \in SUBSET KeyCols,
        s \in {t \in UNION {[1..l -> 0..31] : l \in 0..MaxBasketRows} :
                  \A i \in DOMAIN t : \A j \in DOMAIN t : i < j => t[i] <= t[j]}}

InitBaskets == \E tr \in BasketTables : Entry(EmptyFrame, tr, DefaultCfg, "transactions")

SpecBaskets == InitBaskets /\ [][NextPairs]_vars

\* the grouping columns of highest precedence among cols
TopKey(cols) ==
    IF "order_id" \in cols THEN {"order_id"}
    ELSE IF {"customer_id", "date"} \subseteq cols THEN {"customer_id", "date"}
    ELSE IF "date" \in cols THEN {"date"}
    ELSE {}

\* the rows of transactions of branch b whose columns key have the values of row r
KeyGroup(b, r, key) ==
    {x \in Range(transactions.rows) : x.branch_id = b /\ \A c \in key : x[c] = r[c]}

\* the baskets of branch b as sets of items
BasketSets(b) == {Range(x.items) : x \in {y \in Range(baskets.rows) : y.branch_id = b}}

\* C22: the basket builder fails exactly when the table has neither order_id
\* nor date; otherwise the baskets are those of the table reduced to the
\* grouping columns of highest precedence (order_id, else customer_id and
\* date, else date), rows that agree on these columns and on the branch share
\* a basket, and under a single grouping column there is one basket per
\* branch and value of that column, holding the items of its rows.
C22_KeyPrecedence ==
    pc # "transactions" =>
        LET key == TopKey(transactions.columns)
            brs == {r.branch_id : r \in Range(transactions.rows)}
        IN  /\ (pc = "error") <=> (key = {})
            /\ key # {} =>
                  /\ baskets = BuildTransactions(
                                   Project(transactions, {"branch_id", "item_id"} \cup key))
                  /\ \A r \in Range(transactions.rows) :
                        \E s \in BasketSets(r.branch_id) :
                            {x.item_id : x \in KeyGroup(r.branch_id, r, key)} \subseteq s
                  /\ Cardinality(key) = 1 =>
                        /\ \A b \in brs :
                              BasketSets(b) = {{x.item_id : x \in KeyGroup(b, r, key)} :
                                                  r \in {y \in Range(transactions.rows) :
                                                            y.branch_id = b}}
                        /\ Len(baskets.rows)
                           = Cardinality({<<r.branch_id, ProjectRow(r, key)>> :
                                             r \in Range(transactions.rows)})

\* a table with order_id and date whose two rows of one branch share the date
\* but not the order: two baskets
C22_Witness ==
    /\ pc = "mined"
    /\ {"order_id", "date"} \subseteq transactions.columns
    /\ Len(baskets.rows) = 2
    /\ \E i \in DOMAIN transactions.rows : \E j \in DOMAIN transactions.rows :
          /\ transactions.rows[i].branch_id = transactions.rows[j].branch_id
          /\ transactions.rows[i].date = transactions.rows[j].date
          /\ transactions.rows[i].order_id # transactions.rows[j].order_id

\* C28: keyed by (customer_id, date), a branch has as many baskets as its rows
\* have distinct pairs of customer_id and date, and each basket holds the
\* items of the rows of one pair.
C28_BasketIdInjective ==
    (pc # "transactions" /\ TopKey(transactions.columns) = {"customer_id", "date"}) =>
        \A b \in {r.branch_id : r \in Range(transactions.rows)} :
            /\ Cardinality({x \in Range(baskets.rows) : x.branch_id = b})
               = Cardinality({<<r.customer_id, r.date>> :
                                 r \in {y \in Range(transactions.rows) : y.branch_id = b}})
            /\ BasketSets(b) = {{x.item_id : x \in KeyGroup(b, r, {"customer_id", "date"})} :
                                   r \in {y \in Range(transactions.rows) : y.branch_id = b}}

-----------------------------------------------------------------------------
(* One bundle per low-seller.                                              *)

\* the positions of out_rows that hold a suggestion for low-seller id of branch b
SuggestionsFor(b, id) ==
    {n \in DOMAIN out_rows : out_rows[n].branch_id = b /\ out_rows[n].bundle_items[2] = id}

\* C23: every low-seller row of a branch has at most one emitted suggestion,
\* and every emitted suggestion names two items: one retained anchor of the
\* suggestion's branch and the low-seller.
C23_OneBundlePerLowSeller ==
    /\ \A r \in Range(sales.rows) :
          Cardinality(SuggestionsFor(r.branch_id, r.item_id)) <= 1
    /\ \A n \in DOMAIN out_rows :
          /\ Len(out_rows[n].bundle_items) = 2
          /\ out_rows[n].bundle_items[1] \in RetainedAnchorIds(out_rows[n].branch_id)
          /\ \E t \in Range(trace) :
                /\ t.branch_id = out_rows[n].branch_id
                /\ t.low.item_id = out_rows[n].bundle_items[2]
    /\ pc = "done" => Range(df_out.rows) \subseteq
                          {[out_rows[n] EXCEPT !.bundle_items = Join(out_rows[n].bundle_items)] :
                              n \in DOMAIN out_rows}

\* both branches have suggestions; branch "1" has two retained anchors that
\* branch "2" does not retain, and two low-sellers with a suggestion each
C23_Witness ==
    /\ pc = "done"
    /\ Cardinality(RetainedAnchorIds(BranchOne) \ RetainedAnchorIds(BranchTwo)) >= 2
    /\ Cardinality({r.bundle_items : r \in Range(SliceOf(out_rows, BranchOne))}) >= 2
    /\ SliceOf(out_rows, BranchTwo) # <<>>

-----------------------------------------------------------------------------
(* The service: create_app loads the cache once, then answers requests.    *)

\* the data sets the files can hold: d branches
DataSets == 1..2

\* the statements of the try block before the cache is assigned that can raise
LoadSteps == {"load_all_data", "build_branch_dataset", "run_model", "build_cluster_summary"}

\* int(s) of a str of digits
RECURSIVE ParseInt(_)
ParseInt(s) ==
    IF s = <<>> THEN 0
    ELSE 10 * ParseInt(SubSeq(s, 1, Len(s) - 1))
         + ((CHOOSE i \in 1..10 : Digits[i] = s[Len(s)]) - 1)

\* read_csv of a branch_id written by to_csv: digits come back as an integer
CsvCell(s) ==
    IF s # <<>> /\ \A i \in DOMAIN s : s[i] \in Range(Digits)
    THEN IntCell(ParseInt(s)) ELSE StrCell(s)

\* bundles.csv as written from a table of suggestions and read back
ReadBack(df) == [df EXCEPT !.rows = [i \in DOMAIN df.rows |->
                    [df.rows[i] EXCEPT !.branch_id = CsvCell(df.rows[i].branch_id)]]]

BundleCols == {"branch_id", "bundle_items", "discount_pct", "bundle_price",
               "expected_profit", "support", "lift", "reason"}

\* a row of bundles.csv as generate_bundle_suggestions writes it
BundleRow(branch_id, anc_id, low_id, discount_pct, bundle_price, expected_profit) ==
    [branch_id |-> branch_id, bundle_items |-> Join(<<anc_id, low_id>>),
     discount_pct |-> discount_pct, bundle_price |-> bundle_price,
     expected_profit |-> expected_profit, support |-> RZero, lift |-> ROne,
     reason |-> "Boost low-seller using strong anchor"]

\* suggestions of branch "1"; of branches "1" and "2"; the columns without a
\* row; suggestions of branch "1_2"; a table without the column branch_id
BundleTables ==
    {ReadBack(Table(BundleCols,
        <<BundleRow(BranchOne, Str(3), Str(1), RInt(25), Rat(975, 100), Rat(275, 100))>>)),
     ReadBack(Table(BundleCols,
        <<BundleRow(BranchOne, Str(3), Str(1), RInt(25), Rat(975, 100), Rat(275, 100)),
          BundleRow(BranchTwo, Str(3), Str(2), RInt(25), Rat(975, 100), Rat(575, 100)),
          BundleRow(BranchTwo, Str(3), Str(1), RInt(25), Rat(975, 100), Rat(575, 100))>>)),
     Table(BundleCols, <<>>),
     ReadBack(Table(BundleCols,
        <<BundleRow(Str(1) \o <<"_">> \o Str(2), Str(2), Str(1), RInt(25), Rat(975, 100),
                    Rat(275, 100))>>)),
     Table({"bundle_items"}, <<[bundle_items |-> Join(<<Str(2), Str(1)>>)]>>)}

\* bundles.csv: not there, there and not readable by read_csv, or a table
BundleFiles ==
    {[exists |-> FALSE], [exists |-> TRUE, readable |-> FALSE]}
    \cup {[exists |-> TRUE, readable |-> TRUE, table |-> t] : t \in BundleTables}

Disks == [fails : {"none"} \cup LoadSteps, data : DataSets, bundles : BundleFiles]

\* the branch ids of the requests
RequestIds == {Str(1), Str(2), Str(3), Str(1) \o <<"_">> \o Str(2)}

\* create_app: _reload_cache() on startup
Reload ==
    /\ pc = "startup"
    /\ cache' = ReloadCache(cache, disk)
    /\ pc' = "serving"
    /\ UNCHANGED <<disk, response, item_sales, transactions, cfg, sales, baskets, pair_df,
                   todo, low_items, anchors, low_idx, out_rows, df_out, trace>>

\* GET /api/bundles/<branch_id>
GetBundles ==
    /\ pc = "serving"
    /\ \E branch_id \in RequestIds : response' = ApiBundles(cache, branch_id)
    /\ UNCHANGED <<disk, cache, pc, item_sales, transactions, cfg, sales, baskets, pair_df,
                   todo, low_items, anchors, low_idx, out_rows, df_out, trace>>

\* GET /api/branches
GetBranches ==
    /\ pc = "serving"
    /\ response' = ApiBranches(cache)
    /\ UNCHANGED <<disk, cache, pc, item_sales, transactions, cfg, sales, baskets, pair_df,
                   todo, low_items, anchors, low_idx, out_rows, df_out, trace>>

\* GET /api/cluster-summary
GetClusterSummary ==
    /\ pc = "serving"
    /\ response' = ApiClusterSummary(cache)
    /\ UNCHANGED <<disk, cache, pc, item_sales, transactions, cfg, sales, baskets, pair_df,
                   todo, low_items, anchors, low_idx, out_rows, df_out, trace>>

NextService == Reload \/ GetBundles \/ GetBranches \/ GetClusterSummary

InitService ==
    /\ item_sales = EmptyFrame /\ transactions = None /\ cfg = DefaultCfg
    /\ pc = "startup"
    /\ sales = EmptyFrame /\ baskets = None /\ pair_df = EmptyFrame
    /\ todo = <<>> /\ low_items = <<>> /\ anchors = <<>> /\ low_idx = 1
    /\ out_rows = <<>> /\ df_out = None /\ trace = <<>>
    /\ disk \in Disks
    /\ cache = InitialCache
    /\ response = NoResponse

SpecService == InitService /\ [][NextService]_vars

\* C24: a request for the bundles of a branch is answered with status 200 and
\* an empty list whenever the cached bundle table has no rows, or has the
\* column branch_id and no row of that branch.
C24_EmptyBundlesAreSuccess ==
    (pc = "serving" /\ response.route = "bundles") =>
        LET df == cache.bundles_df
        IN  (\/ df.rows = <<>>
             \/ /\ "branch_id" \in df.columns
                /\ \A r \in Range(df.rows) : AsStr(r.branch_id) # response.arg)
            => (response.status = 200 /\ response.body = <<>>)

\* a request for a branch that the cached table, which has rows, does not hold
C24_Witness ==
    /\ pc = "serving"
    /\ response.route = "bundles"
    /\ cache.bundles_df.rows # <<>>
    /\ "branch_id" \in cache.bundles_df.columns
    /\ \A r \in Range(cache.bundles_df.rows) : AsStr(r.branch_id) # response.arg
    /\ response.status = 200

\* the data fields of the cache
DataFields ==
    {"branches_df", "cluster_summary", "monthly_by_branch", "top_products_by_branch",
     "bundles_df"}

\* C30: once _reload_cache has returned, either load_error is None and the
\* four fields of the branch data are those of one load of the files, or
\* load_error is set and every data field is empty.
C30_CacheConsistent ==
    pc = "serving" =>
        \/ /\ cache.load_error.none
           /\ disk.fails = "none"
           /\ cache.branches_df = Loaded(disk.data).scored_df
           /\ cache.cluster_summary = Loaded(disk.data).cluster_summary
           /\ cache.monthly_by_branch = Loaded(disk.data).monthly_by_branch
           /\ cache.top_products_by_branch = Loaded(disk.data).top_products_by_branch
        \/ /\ ~cache.load_error.none
           /\ \A f \in DataFields : cache[f] \in {EmptyFrame, <<>>}

\* the load went through up to the bundles file, which read_csv could not
\* read: the error is recorded and the cache is empty
C30_Witness ==
    /\ pc = "serving"
    /\ disk.fails = "none"
    /\ disk.bundles.exists
    /\ ~disk.bundles.readable
    /\ ~cache.load_error.none
    /\ cache.branches_df = EmptyFrame

-----------------------------------------------------------------------------
(* The two items of a bundle.                                              *)

\* C25: the anchor of every emitted suggestion is another item than its
\* low-seller.
C25_TwoDistinctItems ==
    \A n \in DOMAIN out_rows : out_rows[n].bundle_items[1] # out_rows[n].bundle_items[2]

-----------------------------------------------------------------------------
(* Discounted bundles.                                                     *)

\* C26: an emitted suggestion with a non-zero discount_pct has a discount of
\* at least 0.01 (discount_pct at least 1.0) and its discounted price meets
\* the target, full_price * (1 - discount) - full_cost >=
\* target_bundle_margin * full_price * (1 - discount); a suggestion that
\* misses the target has discount 0 and discount_pct 0.
C26_DiscountedMeetsTarget ==
    /\ RowsMatchTrace
    /\ \A n \in DOMAIN out_rows :
          LET t == EmittedTrace[n]
              row == out_rows[n]
          IN  /\ row.discount_pct # RZero =>
                    /\ RGe(t.discount, Rat(1, 100))
                    /\ RGe(row.discount_pct, ROne)
                    /\ MeetsTarget(t)
              /\ ~MeetsTarget(t) => (t.discount = RZero /\ row.discount_pct = RZero)

\* an emitted suggestion whose discount is set by the margin, below
\* max_discount_pct, so that the discounted bundle is exactly at the target
C26_Witness ==
    \E n \in DOMAIN out_rows :
        LET t == EmittedTrace[n]
            bundle_price == RMul(PairPrice(t.branch_id, t.best.anc_id, t.low),
                                 RSub(ROne, t.discount))
        IN  /\ Len(EmittedTrace) = Len(out_rows)
            /\ out_rows[n].discount_pct # RZero
            /\ RLt(t.discount, cfg.max_discount_pct)
            /\ RSub(bundle_price, PairCost(t.branch_id, t.best.anc_id, t.low))
               = RMul(cfg.target_bundle_margin, bundle_price)

-----------------------------------------------------------------------------
(* The rounded figures of a suggestion.                                    *)

\* the sales row of item i of branch b with a price and a unit cost in
\* thousandths
MilliRow(b, i, units_sold, price, unit_cost) ==
    [branch_id |-> b, item_id |-> Str(i), units_sold |-> units_sold,
     price |-> Rat(price, 1000), unit_cost |-> Rat(unit_cost, 1000)]

\* low-sellers sold at 3.000 that cost 2.000, 3.990 and 3.996; anchors sold at
\* 10.000 that cost 9.000 and 5.000, as <<units_sold, price, unit_cost>>
MilliProfiles ==
    {<<1, 3000, 2000>>, <<1, 3000, 3990>>, <<1, 3000, 3996>>,
     <<10, 10000, 9000>>, <<10, 10000, 5000>>}

InitRound ==
    \E profs \in [1..MaxItems -> MilliProfiles] :
        Start(Table(SalesCols,
                    [i \in 1..MaxItems |->
                        MilliRow(BranchOne, i, profs[i][1], profs[i][2], profs[i][3])]),
              None, DefaultCfg)

SpecRound == InitRound /\ [][Next]_vars

\* C27: the expected_profit of every emitted row, rounded to 2 decimals, is
\* greater than 0 and within 0.01 of the row's bundle_price minus full_cost.
C27_RoundedProfitPositive ==
    /\ RowsMatchTrace
    /\ \A n \in DOMAIN out_rows :
          LET t == EmittedTrace[n]
              diff == RSub(out_rows[n].expected_profit,
                           RSub(out_rows[n].bundle_price,
                                PairCost(t.branch_id, t.best.anc_id, t.low)))
          IN  /\ RGt(out_rows[n].expected_profit, RZero)
              /\ RLe(diff, Rat(1, 100))
              /\ RGe(diff, Rat(-1, 100))

-----------------------------------------------------------------------------
(* The order of the rows of item_sales.                                    *)

\* one branch without transactions, low-sellers of equal economics, a cut of
\* one row and the default cut
InitOrder ==
    \E profs \in [1..MaxItems -> {Slow, SlowFlat, Strong}], k \in {1, 10} :
        Start(Table(SalesCols, BranchSales(BranchOne, profs)), None,
              [DefaultCfg EXCEPT !.top_k_per_branch = k])

SpecOrder == InitOrder /\ [][Next]_vars

\* the table a run returns on item_sales with its rows in the order p
ReturnedInOrder(p) ==
    GenerateBundleSuggestions(RowsInOrder(item_sales, p), transactions, cfg).rows

\* the low-seller of a returned row: what follows "+" in bundle_items
LowIdOf(row) ==
    SubSeq(row.bundle_items, (CHOOSE k \in DOMAIN row.bundle_items : row.bundle_items[k] = "+") + 1,
           Len(row.bundle_items))

\* the position of the low-seller of a returned row in item_sales ordered by p
LowPosition(row, p) ==
    CHOOSE n \in DOMAIN p : /\ item_sales.rows[p[n]].branch_id = row.branch_id
                            /\ item_sales.rows[p[n]].item_id = LowIdOf(row)

\* the emitted suggestions as rows of the table before ranking
EmittedTableRows ==
    {[out_rows[n] EXCEPT !.bundle_items = Join(out_rows[n].bundle_items)] : n \in DOMAIN out_rows}

====
